---- MODULE Spec2Model ----
(***************************************************************************)
(* Verification model of the Cartesi machine emulator's access-log replay  *)
(* (step_state_access), its Merkle proofs and the surrounding machine      *)
(* entry points.                                                           *)
(*                                                                         *)
(* Hashes are modelled as terms: the hash of a word w is <<w>>, the hash   *)
(* of the concatenation of two hashes is the pair of them, and the         *)
(* pristine hash of a 2^k-byte all-zero subtree is the atom <<3-k>> (so    *)
(* that H(P[k] || P[k]) = P[k+1] and H(0^8) = P[3]).  Two terms are equal  *)
(* exactly when they were built the same way: the hash is collision free.  *)
(* The tree has its full height of 64 levels; the words that may be        *)
(* non-zero all lie in the page at address 0 (the shadow page).            *)
(***************************************************************************)
EXTENDS Integers, Sequences, FiniteSets, TLC

VARIABLES
    phase,            \* position of the whole scenario
    mem,              \* machine state words that may be non-zero (address -> word)
    log_proofs,       \* access_log::get_log_type().has_proofs()
    log,              \* access log being produced by the logged step
    m_accesses,       \* step_state_access::m_accesses
    m_verify_proofs,  \* step_state_access::m_verify_proofs
    m_one_based,      \* step_state_access::m_one_based
    m_next_access,    \* step_state_access::m_next_access
    m_root_hash,      \* step_state_access::m_root_hash
    m_mock_pmas,      \* step_state_access::m_mock_pmas
    m_done,           \* mock_machine_state::m_done
    root0,            \* root hash the replay started from
    req,              \* the last request made to the replay object and its outcome
    err,              \* exception thrown by the replay object, if any
    proof_out,        \* proof handed back by get_proof
    roll,             \* roll_hash_up_tree under way: log2_size, rolling_hash, indices read
    interp,           \* interpreter locals and the state the step started from
    mie,              \* machine_state::mie
    mip,              \* machine_state::mip
    brk,              \* machine_state::brk
    iflags,           \* machine_state::iflags
    htif,             \* machine_state::htif (tohost, fromhost, iyield)
    caller,           \* position of the code that changes mip or mie
    x,                \* machine_state::x
    csr,              \* machine_state: the CSRs without mie, mip and iflags
    s_pmas,           \* machine_state::pmas, as (istart, ilength) pairs
    shadow,           \* the buffer handed to shadow_peek
    peek,             \* what the last shadow_peek returned
    timecmp,          \* RISCVMachine::timecmp
    shuthost,         \* the CPU's shuthost flag
    power_down,       \* the CPU's power-down flag
    cpu_mcycle,       \* the CPU's cycle counter
    con,              \* RISCVMachine::htif_console
    dev_req,          \* the last device register write and the state before it
    run,              \* virt_machine_run under way: position and locals
    mem_map,          \* PhysMemoryMap: the ranges registered, and the fate of the process
    host_req,         \* the last call made on the host side and its outcome
    boot              \* low RAM as copy_boot_image leaves it, and the CPU that boots

vars == <<phase, mem, log_proofs, log, m_accesses, m_verify_proofs, m_one_based,
          m_next_access, m_root_hash, m_mock_pmas, m_done, root0, req, err,
          proof_out, roll, interp, mie, mip, brk, iflags, htif, caller,
          x, csr, s_pmas, shadow, peek,
          timecmp, shuthost, power_down, cpu_mcycle, con, dev_req, run,
          mem_map, host_req, boot>>

\* The machine state proper
state_vars == <<mie, mip, brk, iflags, htif, caller>>

\* The shadow device's view
shadow_vars == <<x, csr, s_pmas, shadow, peek>>

\* The machine of machine.cpp
virt_vars == <<timecmp, shuthost, power_down, cpu_mcycle, con, dev_req, run>>

\* The memory map, the configuration and the boot
host_vars == <<mem_map, host_req, boot>>

machine_vars == <<state_vars, shadow_vars, virt_vars, host_vars>>

\* The replay object
replay_vars == <<m_accesses, m_verify_proofs, m_one_based, m_next_access,
                 m_root_hash, m_mock_pmas, m_done, root0, req, err>>

---------------------------------------------------------------------------
(* Bounds *)

MaxLog == 2         \* longest access log
MaxWord == 1        \* words range over 0..MaxWord
CycleBits == 2      \* bits kept of the 64-bit counter mcycle
MaxPma == 2         \* PMA slots of the shadow that are kept

Words == 0..MaxWord

---------------------------------------------------------------------------
(* Program constants *)

LOG2_WORD_SIZE == 3
LOG2_ROOT_SIZE == 64
LOG2_PAGE_SIZE == 12
PMA_SHADOW_START == 0
SHADOW_PMA_BASE == 2048
MOCK_PMAS_CAPACITY == 32
\* sizeof(uint64_t)
SIZEOF_WORD == 2 ^ LOG2_WORD_SIZE

\* istart bit layout
PMA_ISTART_M_SHIFT == 0
PMA_ISTART_IO_SHIFT == 1
PMA_ISTART_E_SHIFT == 2
PMA_ISTART_R_SHIFT == 3
PMA_ISTART_W_SHIFT == 4
PMA_ISTART_X_SHIFT == 5
PMA_ISTART_IR_SHIFT == 6
PMA_ISTART_IW_SHIFT == 7
PMA_ISTART_DID_SHIFT == 8
PMA_ISTART_DID_WIDTH == 4

\* PMA_ISTART_DID
DID_memory == 0
DID_shadow == 1
DID_drive == 2
DID_CLINT == 3
DID_HTIF == 4

\* shadow_csr::mcycle
shadow_csr_mcycle == 288

shadow_get_csr_rel_addr(reg) == reg

shadow_get_register_rel_addr(reg) == reg * SIZEOF_WORD

shadow_get_pma_rel_addr(p) == SHADOW_PMA_BASE + 2 * p * SIZEOF_WORD

\* Addresses the modelled interpreter reads and writes directly: x1 and x2.
RegAddrs == {PMA_SHADOW_START + shadow_get_register_rel_addr(1),
             PMA_SHADOW_START + shadow_get_register_rel_addr(2)}

\* PMA slots of the shadow that are kept.
PmaSlots == 0..(MaxPma - 1)

PmaIstartAddr(i) == PMA_SHADOW_START + shadow_get_pma_rel_addr(i)
PmaIlengthAddr(i) == PMA_SHADOW_START + shadow_get_pma_rel_addr(i) + SIZEOF_WORD

PmaAddrs == {PmaIstartAddr(i) : i \in PmaSlots} \cup {PmaIlengthAddr(i) : i \in PmaSlots}

X1Addr == PMA_SHADOW_START + shadow_get_register_rel_addr(1)
X2Addr == PMA_SHADOW_START + shadow_get_register_rel_addr(2)
McycleAddr == PMA_SHADOW_START + shadow_get_csr_rel_addr(shadow_csr_mcycle)

\* mcycle wraps around like the uint64_t it is, at CycleBits bits
CycleModulus == 2 ^ CycleBits

\* The words of the machine state that are kept; every other word is zero.
TouchedAddrs == RegAddrs \cup PmaAddrs \cup {McycleAddr}

\* Physical addresses whose PMA entry the modelled interpreter looks up.
PmaTargets == {PMA_SHADOW_START + shadow_get_register_rel_addr(1), 2 ^ LOG2_PAGE_SIZE}

---------------------------------------------------------------------------
(* Hasher *)

\* hasher.begin(); add_data(a); add_data(b); end()
HashConcat(a, b) ==
    IF a = b /\ Len(a) = 1 /\ a[1] <= 0 THEN <<a[1] - 1>> ELSE <<a, b>>

get_word_hash(word) == <<word>>

\* True of every hash; asking it makes the model checker compute h on the spot.
IsHash(h) == Len(h) \in {1, 2}

\* P[3] = H(0^8), P[k] = H(P[k-1] || P[k-1]), in closed form
PristineHash(k) == <<LOG2_WORD_SIZE - k>>

\* A hash no honest tree contains.
JunkHash == get_word_hash(MaxWord + 7)

\* bit = (proof.address & (UINT64_C(1) << log2_size)) != 0, addresses < 2^31
AddressBit(address, log2_size) ==
    IF log2_size >= 31 THEN 0 ELSE (address \div (2 ^ log2_size)) % 2

SiblingIndices == 0..(LOG2_ROOT_SIZE - 1 - LOG2_WORD_SIZE)

\* Siblings stored from the leaf side: the target level's sibling first
sibling_index_leaf_first(log2_size) == log2_size - LOG2_WORD_SIZE

\* Index of the sibling read at level log2_size: sibling_hashes[63-log2_size]
sibling_index(log2_size) == 63 - log2_size

\* One iteration of the loop with the two operands of the hash exchanged
roll_step_swapped(proof, log2_size, rolling_hash) ==
    LET sibling_hash == proof.sibling_hashes[sibling_index(log2_size)]
    IN IF AddressBit(proof.address, log2_size) = 1
       THEN HashConcat(rolling_hash, sibling_hash)
       ELSE HashConcat(sibling_hash, rolling_hash)

\* One iteration of the loop of roll_hash_up_tree.
roll_step(proof, log2_size, rolling_hash) ==
    LET sibling_hash == proof.sibling_hashes[sibling_index(log2_size)]
    IN IF AddressBit(proof.address, log2_size) = 1
       THEN HashConcat(sibling_hash, rolling_hash)
       ELSE HashConcat(rolling_hash, sibling_hash)

\* The iterations log2_size = lo, lo+1, ..., hi-1 of the loop, in that order
\* (split in halves to keep the evaluation shallow).
RECURSIVE roll_loop(_, _, _, _)
roll_loop(proof, lo, hi, rolling_hash) ==
    IF lo >= hi THEN rolling_hash
    ELSE IF hi = lo + 1 THEN roll_step(proof, lo, rolling_hash)
    ELSE LET mid == (lo + hi) \div 2
             first_half == roll_loop(proof, lo, mid, rolling_hash)
         IN IF IsHash(first_half) THEN roll_loop(proof, mid, hi, first_half)
            ELSE first_half

roll_hash_up_tree(proof, rolling_hash) ==
    roll_loop(proof, proof.log2_size, LOG2_ROOT_SIZE, rolling_hash)

---------------------------------------------------------------------------
(* Merkle tree over the machine state *)

\* Every address that is kept lies in the page at address 0 (the shadow page).
Covers(addr, log2_size, a) ==
    log2_size >= LOG2_PAGE_SIZE \/ (a >= addr /\ a - addr < 2 ^ log2_size)

IsPristine(m, addr, log2_size) ==
    \A a \in DOMAIN m : Covers(addr, log2_size, a) => m[a] = 0

\* Hash of the node of size 2^log2_size at addr, inside the page at address 0.
RECURSIVE PageNodeHash(_, _, _)
PageNodeHash(m, addr, log2_size) ==
    IF IsPristine(m, addr, log2_size) THEN PristineHash(log2_size)
    ELSE IF log2_size = LOG2_WORD_SIZE THEN get_word_hash(m[addr])
    ELSE HashConcat(PageNodeHash(m, addr, log2_size - 1),
                    PageNodeHash(m, addr + 2 ^ (log2_size - 1), log2_size - 1))

\* Hash of the node of size 2^hi at address 0 from the hash h of the node of
\* size 2^lo at address 0, LOG2_PAGE_SIZE <= lo <= hi: every right child on
\* the way lies outside the page at address 0, so it is pristine
\* (split in halves to keep the evaluation shallow).
RECURSIVE HighNodeHash(_, _, _)
HighNodeHash(h, lo, hi) ==
    IF lo >= hi THEN h
    ELSE IF hi = lo + 1 THEN HashConcat(h, PristineHash(lo))
    ELSE LET mid == (lo + hi) \div 2
             first_half == HighNodeHash(h, lo, mid)
         IN IF IsHash(first_half) THEN HighNodeHash(first_half, mid, hi)
            ELSE first_half

\* Hash of the node of size 2^log2_size at addr: inside the page at address 0,
\* above it (addr = 0), or beside it (pristine).
NodeHash(m, addr, log2_size) ==
    IF addr >= 2 ^ LOG2_PAGE_SIZE THEN PristineHash(log2_size)
    ELSE IF log2_size > LOG2_PAGE_SIZE
    THEN LET page_hash == PageNodeHash(m, 0, LOG2_PAGE_SIZE)
         IN IF IsHash(page_hash)
            THEN HighNodeHash(page_hash, LOG2_PAGE_SIZE, log2_size)
            ELSE page_hash
    ELSE PageNodeHash(m, addr, log2_size)

get_root_hash_of(m) == NodeHash(m, 0, LOG2_ROOT_SIZE)

\* Address of the sibling of the node of size 2^l on the path to address.
SiblingAddr(address, l) ==
    LET base == (address \div (2 ^ (l + 1))) * (2 ^ (l + 1))
    IN base + (1 - AddressBit(address, l)) * (2 ^ l)

\* Hash of the sibling of the node of size 2^l on the path to address.
\* (addresses < 2^30: from level 30 up the sibling lies beyond them)
SiblingHash(m, address, l) ==
    IF l >= 30 THEN PristineHash(l)
    ELSE NodeHash(m, SiblingAddr(address, l), l)

get_proof(m, address, log2_size) ==
    [address |-> address,
     log2_size |-> log2_size,
     target_hash |-> NodeHash(m, address, log2_size),
     root_hash |-> get_root_hash_of(m),
     sibling_hashes |->
        [i \in SiblingIndices |->
            LET l == 63 - i
            IN IF l < log2_size THEN PristineHash(LOG2_WORD_SIZE)
               ELSE SiblingHash(m, address, l)]]

NoProof ==
    [address |-> 0, log2_size |-> LOG2_WORD_SIZE,
     target_hash |-> PristineHash(LOG2_WORD_SIZE),
     root_hash |-> PristineHash(LOG2_WORD_SIZE),
     sibling_hashes |-> [i \in SiblingIndices |-> PristineHash(LOG2_WORD_SIZE)]]

---------------------------------------------------------------------------
(* PMA descriptors *)

Bit(word, shift) == (word \div (2 ^ shift)) % 2

make_istart(start, M, IO, E, DID) ==
    start + M * (2 ^ PMA_ISTART_M_SHIFT) + IO * (2 ^ PMA_ISTART_IO_SHIFT)
          + E * (2 ^ PMA_ISTART_E_SHIFT) + DID * (2 ^ PMA_ISTART_DID_SHIFT)

\* split_istart: start, M, IO, E and the flags f
split_istart(istart) ==
    [M |-> Bit(istart, PMA_ISTART_M_SHIFT),
     IO |-> Bit(istart, PMA_ISTART_IO_SHIFT),
     E |-> Bit(istart, PMA_ISTART_E_SHIFT),
     f |-> [R |-> Bit(istart, PMA_ISTART_R_SHIFT),
            W |-> Bit(istart, PMA_ISTART_W_SHIFT),
            X |-> Bit(istart, PMA_ISTART_X_SHIFT),
            IR |-> Bit(istart, PMA_ISTART_IR_SHIFT),
            IW |-> Bit(istart, PMA_ISTART_IW_SHIFT),
            DID |-> (istart \div (2 ^ PMA_ISTART_DID_SHIFT)) % (2 ^ PMA_ISTART_DID_WIDTH)],
     start |-> (istart \div (2 ^ LOG2_PAGE_SIZE)) * (2 ^ LOG2_PAGE_SIZE)]

\* istart & PMA_ISTART_START_MASK
istart_start(istart) == (istart \div (2 ^ LOG2_PAGE_SIZE)) * (2 ^ LOG2_PAGE_SIZE)

\* paddr >= start && paddr - start <= ilength - sizeof(T), in uint64_t
\* arithmetic: ilength - sizeof(T) wraps around when ilength < sizeof(T).
pma_contains(istart, ilength, paddr) ==
    /\ paddr >= istart_start(istart)
    /\ (ilength >= SIZEOF_WORD => paddr - istart_start(istart) <= ilength - SIZEOF_WORD)

\* Outcome of the loop of do_find_pma_entry over descriptors read by rd(addr):
\* the slot whose descriptor is handed to build_mock_pma_entry.
RECURSIVE find_slot(_, _, _)
find_slot(m, i, paddr) ==
    IF i \notin PmaSlots THEN i
    ELSE IF m[PmaIlengthAddr(i)] = 0 THEN i
    ELSE IF pma_contains(m[PmaIstartAddr(i)], m[PmaIlengthAddr(i)], paddr) THEN i
    ELSE find_slot(m, i + 1, paddr)

---------------------------------------------------------------------------
(* Logged step: every word access is recorded, with a proof if requested *)

make_proof(m, address) ==
    IF log_proofs THEN get_proof(m, address, LOG2_WORD_SIZE) ELSE NoProof

logged_read_access(m, paligned) ==
    [type |-> "read", address |-> paligned, read |-> m[paligned], written |-> 0,
     proof |-> make_proof(m, paligned)]

LoggedRead(paligned, max_log) ==
    /\ phase = "step"
    /\ Len(log) < max_log
    /\ log' = Append(log, logged_read_access(mem, paligned))
    /\ UNCHANGED <<phase, mem, log_proofs, m_accesses, m_verify_proofs, m_one_based,
                   m_next_access, m_root_hash, m_mock_pmas, m_done, root0, req, err>>

LoggedWrite(paligned, val, max_log) ==
    /\ phase = "step"
    /\ Len(log) < max_log
    /\ log' = Append(log, [type |-> "write", address |-> paligned,
                           read |-> mem[paligned], written |-> val,
                           proof |-> make_proof(mem, paligned)])
    /\ mem' = [mem EXCEPT ![paligned] = val]
    /\ UNCHANGED <<phase, log_proofs, m_accesses, m_verify_proofs, m_one_based,
                   m_next_access, m_root_hash, m_mock_pmas, m_done, root0, req, err>>

\* The reads of find_pma_entry for slots 0..last, in order.
RECURSIVE logged_pma_reads(_, _, _)
logged_pma_reads(m, i, last) ==
    IF i > last THEN <<>>
    ELSE <<logged_read_access(m, PmaIstartAddr(i)),
           logged_read_access(m, PmaIlengthAddr(i))>>
         \o logged_pma_reads(m, i + 1, last)

LoggedFindPma(paddr, max_log) ==
    /\ phase = "step"
    /\ find_slot(mem, 0, paddr) \in PmaSlots
    /\ Len(log) + 2 * (find_slot(mem, 0, paddr) + 1) <= max_log
    /\ log' = log \o logged_pma_reads(mem, 0, find_slot(mem, 0, paddr))
    /\ UNCHANGED <<phase, mem, log_proofs, m_accesses, m_verify_proofs, m_one_based,
                   m_next_access, m_root_hash, m_mock_pmas, m_done, root0, req, err>>

---------------------------------------------------------------------------
(* The log in transit: one field of one entry may be altered *)

AccessFields == {"type", "address", "read", "written"}
ProofFields == {"proof_address", "proof_log2_size", "proof_target_hash",
                "proof_root_hash", "sibling_leaf", "sibling_top"}
TamperFields == AccessFields \cup ProofFields

OtherAddr(a) == CHOOSE b \in RegAddrs : b # a

TamperEntry(e, field) ==
    CASE field = "type" ->
            [e EXCEPT !.type = IF e.type = "read" THEN "write" ELSE "read"]
      [] field = "address" -> [e EXCEPT !.address = OtherAddr(e.address)]
      [] field = "read" ->
            [e EXCEPT !.read = IF e.read \in Words THEN (e.read + 1) % (MaxWord + 1)
                               ELSE e.read + 1]
      [] field = "written" -> [e EXCEPT !.written = (e.written + 1) % (MaxWord + 1)]
      [] field = "proof_address" ->
            [e EXCEPT !.proof.address = OtherAddr(e.proof.address)]
      [] field = "proof_log2_size" ->
            [e EXCEPT !.proof.log2_size = LOG2_WORD_SIZE + 1]
      [] field = "proof_target_hash" -> [e EXCEPT !.proof.target_hash = JunkHash]
      [] field = "proof_root_hash" -> [e EXCEPT !.proof.root_hash = JunkHash]
      [] field = "sibling_leaf" ->
            [e EXCEPT !.proof.sibling_hashes[63 - LOG2_WORD_SIZE] = JunkHash]
      [] field = "sibling_top" -> [e EXCEPT !.proof.sibling_hashes[0] = JunkHash]

Tamper(i, field) ==
    /\ phase = "step"
    /\ i \in 1..Len(log)
    /\ log_proofs
    /\ log' = [log EXCEPT ![i] = TamperEntry(log[i], field)]
    /\ phase' = "tampered"
    /\ UNCHANGED <<mem, log_proofs, m_accesses, m_verify_proofs, m_one_based,
                   m_next_access, m_root_hash, m_mock_pmas, m_done, root0, req, err>>

---------------------------------------------------------------------------
(* step_state_access *)

NoIndex == 0 - 1
NoError == [kind |-> "none", index |-> NoIndex]
NoRequest == [op |-> "none", paligned |-> 0, val |-> 0, ret |-> 0, n |-> 0]

\* Values an uninitialized hash_type may hold.
UninitHashes == {PristineHash(LOG2_WORD_SIZE), JunkHash}

\* A constructor that leaves m_root_hash as it finds it
Construct_root_not_from_log(verify_proofs, one_based) ==
    /\ phase \in {"step", "tampered", "stepped"}
    /\ m_accesses' = log
    /\ m_verify_proofs' = verify_proofs
    /\ m_one_based' = one_based
    /\ m_next_access' = 0
    /\ m_done' = FALSE
    /\ m_mock_pmas' = <<>>
    /\ req' = NoRequest
    /\ IF verify_proofs /\ ~log_proofs
       THEN /\ err' = [kind |-> "log_has_no_proofs", index |-> NoIndex]
            /\ phase' = "failed"
            /\ m_root_hash' \in UninitHashes
       ELSE /\ err' = NoError
            /\ phase' = "replay"
            /\ m_root_hash' \in UninitHashes
    /\ root0' = m_root_hash'
    /\ UNCHANGED <<mem, log_proofs, log>>

\* step_state_access::step_state_access
Construct(verify_proofs, one_based) ==
    /\ phase \in {"step", "tampered", "stepped"}
    /\ m_accesses' = log
    /\ m_verify_proofs' = verify_proofs
    /\ m_one_based' = one_based
    /\ m_next_access' = 0
    /\ m_done' = FALSE
    /\ m_mock_pmas' = <<>>
    /\ req' = NoRequest
    /\ IF verify_proofs /\ ~log_proofs
       THEN /\ err' = [kind |-> "log_has_no_proofs", index |-> NoIndex]
            /\ phase' = "failed"
            /\ m_root_hash' \in UninitHashes
       ELSE /\ err' = NoError
            /\ phase' = "replay"
            /\ IF log # <<>> /\ verify_proofs
               THEN m_root_hash' = log[1].proof.root_hash
               ELSE m_root_hash' \in UninitHashes
    /\ root0' = m_root_hash'
    /\ UNCHANGED <<mem, log_proofs, log>>

get_root_hash == m_root_hash

\* access_to_report() that ignores m_one_based
access_to_report_one_based(next_access) == next_access + 1

\* access_to_report() when m_next_access = next_access
access_to_report(next_access) == next_access + (IF m_one_based THEN 1 ELSE 0)

Error(kind, next_access) == [kind |-> kind, index |-> access_to_report(next_access)]

\* The proof checks without the comparison against proof.target_hash
check_proof_no_target(access, next_access) ==
    LET proof == access.proof
        rolling_hash == get_word_hash(access.read)
    IN IF proof.address # access.address
       THEN Error("proof_address_mismatch", next_access)
       ELSE IF m_root_hash # proof.root_hash
       THEN Error("root_hash_mismatch", next_access)
       ELSE IF roll_hash_up_tree(proof, rolling_hash) # proof.root_hash
       THEN Error("fails_proof", next_access)
       ELSE NoError

\* The proof checks of check_read and check_write (m_verify_proofs set).
check_proof(access, next_access) ==
    LET proof == access.proof
        rolling_hash == get_word_hash(access.read)
    IN IF proof.address # access.address
       THEN Error("proof_address_mismatch", next_access)
       ELSE IF m_root_hash # proof.root_hash
       THEN Error("root_hash_mismatch", next_access)
       ELSE IF rolling_hash # proof.target_hash
       THEN Error("target_hash_mismatch", next_access)
       ELSE IF roll_hash_up_tree(proof, rolling_hash) # proof.root_hash
       THEN Error("fails_proof", next_access)
       ELSE NoError

\* check_read without the comparison of access.address against paligned
check_read_error_no_address(next_access, paligned) ==
    IF next_access >= Len(m_accesses)
    THEN [kind |-> "too_few", index |-> NoIndex]
    ELSE LET access == m_accesses[next_access + 1]
         IN IF access.type # "read" THEN Error("type_mismatch", next_access)
            ELSE IF m_verify_proofs THEN check_proof(access, next_access)
            ELSE NoError

\* Outcome of check_read when m_next_access = next_access: the exception it
\* throws, or NoError.
check_read_error(next_access, paligned) ==
    IF next_access >= Len(m_accesses)
    THEN [kind |-> "too_few", index |-> NoIndex]
    ELSE LET access == m_accesses[next_access + 1]
         IN IF access.type # "read" THEN Error("type_mismatch", next_access)
            ELSE IF access.address # paligned
            THEN Error("address_mismatch", next_access)
            ELSE IF m_verify_proofs THEN check_proof(access, next_access)
            ELSE NoError

\* Outcome of check_write: the exception it throws, or NoError.
check_write_error(next_access, paligned, val) ==
    IF next_access >= Len(m_accesses)
    THEN [kind |-> "too_few", index |-> NoIndex]
    ELSE LET access == m_accesses[next_access + 1]
         IN IF access.type # "write" THEN Error("type_mismatch", next_access)
            ELSE IF access.address # paligned
            THEN Error("address_mismatch", next_access)
            ELSE IF m_verify_proofs
            THEN IF check_proof(access, next_access) # NoError
                 THEN check_proof(access, next_access)
                 ELSE IF access.written # val
                 THEN Error("written_mismatch", next_access)
                 ELSE NoError
            ELSE NoError

\* A write that rolls up the hash of the word read instead of the word written
root_after_write_from_read(access) ==
    IF access.type = "write"
    THEN roll_hash_up_tree(access.proof, get_word_hash(access.read))
    ELSE m_root_hash

\* m_root_hash after an accepted write (m_verify_proofs set).
root_after_write(access) ==
    IF access.type = "write"
    THEN roll_hash_up_tree(access.proof, get_word_hash(access.written))
    ELSE m_root_hash

check_read(paligned) ==
    /\ phase = "replay"
    /\ LET e == check_read_error(m_next_access, paligned)
       IN /\ err' = e
          /\ IF e = NoError
             THEN /\ m_next_access' = m_next_access + 1
                  /\ phase' = phase
                  /\ req' = [op |-> "read", paligned |-> paligned, val |-> 0,
                             ret |-> m_accesses[m_next_access + 1].read,
                             n |-> m_next_access]
             ELSE /\ m_next_access' = m_next_access
                  /\ phase' = "failed"
                  /\ req' = [op |-> "read", paligned |-> paligned, val |-> 0,
                             ret |-> 0, n |-> m_next_access]
    /\ UNCHANGED <<mem, log_proofs, log, m_accesses, m_verify_proofs, m_one_based,
                   m_root_hash, m_mock_pmas, m_done, root0>>

\* check_write with the root hash brought up to date before the word written
\* is compared
check_write_root_first(paligned, val) ==
    /\ phase = "replay"
    /\ LET e == check_write_error(m_next_access, paligned, val)
       IN /\ err' = e
          /\ req' = [op |-> "write", paligned |-> paligned, val |-> val,
                     ret |-> 0, n |-> m_next_access]
          /\ IF e = NoError
             THEN /\ m_next_access' = m_next_access + 1
                  /\ phase' = phase
                  /\ m_root_hash' = IF m_verify_proofs
                                    THEN root_after_write(m_accesses[m_next_access + 1])
                                    ELSE m_root_hash
             ELSE /\ m_next_access' = m_next_access
                  /\ phase' = "failed"
                  /\ m_root_hash' = IF e.kind = "written_mismatch"
                                    THEN root_after_write(m_accesses[m_next_access + 1])
                                    ELSE m_root_hash
    /\ UNCHANGED <<mem, log_proofs, log, m_accesses, m_verify_proofs, m_one_based,
                   m_mock_pmas, m_done, root0>>

check_write(paligned, val) ==
    /\ phase = "replay"
    /\ LET e == check_write_error(m_next_access, paligned, val)
       IN /\ err' = e
          /\ req' = [op |-> "write", paligned |-> paligned, val |-> val,
                     ret |-> 0, n |-> m_next_access]
          /\ IF e = NoError
             THEN /\ m_next_access' = m_next_access + 1
                  /\ phase' = phase
                  /\ m_root_hash' = IF m_verify_proofs
                                    THEN root_after_write(m_accesses[m_next_access + 1])
                                    ELSE m_root_hash
             ELSE /\ m_next_access' = m_next_access
                  /\ phase' = "failed"
                  /\ m_root_hash' = m_root_hash
    /\ UNCHANGED <<mem, log_proofs, log, m_accesses, m_verify_proofs, m_one_based,
                   m_mock_pmas, m_done, root0>>

\* finish that only fails when the cursor ran past the end of the log
finish_error_past_end ==
    IF m_next_access > Len(m_accesses)
    THEN [kind |-> "too_many", index |-> NoIndex]
    ELSE NoError

finish_error ==
    IF m_next_access # Len(m_accesses)
    THEN [kind |-> "too_many", index |-> NoIndex]
    ELSE NoError

finish ==
    /\ phase = "replay"
    /\ err' = finish_error
    /\ phase' = IF finish_error = NoError THEN "finished" ELSE "failed"
    /\ req' = [op |-> "finish", paligned |-> 0, val |-> 0, ret |-> 0,
               n |-> m_next_access]
    /\ UNCHANGED <<mem, log_proofs, log, m_accesses, m_verify_proofs, m_one_based,
                   m_next_access, m_root_hash, m_mock_pmas, m_done, root0>>

---------------------------------------------------------------------------
(* Mock PMA entries rebuilt from logged istart/ilength words *)

\* A build hands back the exception it throws (or NoError) and m_mock_pmas.
allocate_mock_pma_entry(pmas, pma) ==
    IF Len(pmas) = MOCK_PMAS_CAPACITY
    THEN [err |-> [kind |-> "too_many_pma", index |-> NoIndex], pmas |-> pmas]
    ELSE [err |-> NoError, pmas |-> Append(pmas, pma)]

error_flags(pmas, next_access) ==
    [err |-> Error("invalid_flags", next_access), pmas |-> pmas]

build_mock_memory_pma_entry(pmas, start, length, f, next_access) ==
    IF f.DID # DID_memory /\ f.DID # DID_drive
    THEN error_flags(pmas, next_access)
    ELSE allocate_mock_pma_entry(pmas,
            [kind |-> "memory", start |-> start, length |-> length, flags |-> f])

\* Device entries whose DID falls through to the last case unchecked
build_mock_device_pma_entry_any(pmas, start, length, f, next_access) ==
    IF f.DID = DID_shadow
    THEN allocate_mock_pma_entry(pmas,
            [kind |-> "shadow", start |-> start, length |-> length, flags |-> f])
    ELSE IF f.DID = DID_CLINT
    THEN allocate_mock_pma_entry(pmas,
            [kind |-> "clint", start |-> start, length |-> length, flags |-> f])
    ELSE allocate_mock_pma_entry(pmas,
            [kind |-> "htif", start |-> start, length |-> length, flags |-> f])

build_mock_device_pma_entry(pmas, start, length, f, next_access) ==
    IF f.DID = DID_shadow
    THEN allocate_mock_pma_entry(pmas,
            [kind |-> "shadow", start |-> start, length |-> length, flags |-> f])
    ELSE IF f.DID = DID_CLINT
    THEN allocate_mock_pma_entry(pmas,
            [kind |-> "clint", start |-> start, length |-> length, flags |-> f])
    ELSE IF f.DID = DID_HTIF
    THEN allocate_mock_pma_entry(pmas,
            [kind |-> "htif", start |-> start, length |-> length, flags |-> f])
    ELSE error_flags(pmas, next_access)

build_mock_empty_pma_entry(pmas, start, length, f) ==
    allocate_mock_pma_entry(pmas,
        [kind |-> "empty", start |-> start, length |-> length, flags |-> f])

build_mock_pma_entry(pmas, istart, ilength, next_access) ==
    LET s == split_istart(istart)
    IN IF s.M + s.IO + s.E # 1 THEN error_flags(pmas, next_access)
       ELSE IF s.M = 1
       THEN build_mock_memory_pma_entry(pmas, s.start, ilength, s.f, next_access)
       ELSE IF s.IO = 1
       THEN build_mock_device_pma_entry(pmas, s.start, ilength, s.f, next_access)
       ELSE build_mock_empty_pma_entry(pmas, s.start, ilength, s.f)

\* The loop of do_find_pma_entry from slot i with m_next_access = next_access:
\* the exception thrown (or NoError), the final m_next_access and m_mock_pmas.
RECURSIVE find_pma_loop(_, _, _)
find_pma_loop(i, next_access, paddr) ==
    LET e1 == check_read_error(next_access, PmaIstartAddr(i))
        e2 == check_read_error(next_access + 1, PmaIlengthAddr(i))
        istart == m_accesses[next_access + 1].read
        ilength == m_accesses[next_access + 2].read
        built == build_mock_pma_entry(m_mock_pmas, istart, ilength, next_access + 2)
    IN IF e1 # NoError
       THEN [err |-> e1, next |-> next_access, pmas |-> m_mock_pmas]
       ELSE IF e2 # NoError
       THEN [err |-> e2, next |-> next_access + 1, pmas |-> m_mock_pmas]
       ELSE IF ilength = 0 \/ pma_contains(istart, ilength, paddr)
       THEN [err |-> built.err, next |-> next_access + 2, pmas |-> built.pmas]
       ELSE find_pma_loop(i + 1, next_access + 2, paddr)

do_find_pma_entry(paddr) ==
    /\ phase = "replay"
    /\ LET r == find_pma_loop(0, m_next_access, paddr)
       IN /\ err' = r.err
          /\ m_next_access' = r.next
          /\ m_mock_pmas' = r.pmas
          /\ phase' = IF r.err = NoError THEN phase ELSE "failed"
    /\ req' = [op |-> "find_pma", paligned |-> paddr, val |-> 0, ret |-> 0,
               n |-> m_next_access]
    /\ UNCHANGED <<mem, log_proofs, log, m_accesses, m_verify_proofs, m_one_based,
                   m_root_hash, m_done, root0>>

---------------------------------------------------------------------------
(* machine_state: the break flag *)

IrqBits == 2        \* bits kept of mip and mie
YieldBits == 2      \* bits of htif.iyield that may be set

IrqMasks == 0..(2 ^ IrqBits - 1)

\* a & b on unsigned integers
RECURSIVE BitAnd(_, _)
BitAnd(a, b) ==
    IF a = 0 \/ b = 0 THEN 0
    ELSE (a % 2) * (b % 2) + 2 * BitAnd(a \div 2, b \div 2)

\* a | b and a & ~b on unsigned integers
BitOr(a, b) == a + b - BitAnd(a, b)
BitClear(a, b) == a - BitAnd(a, b)

\* A 64-bit word of the HTIF is kept as its 8 bytes, least significant first.
BYTES_PER_WORD == 8
ByteIndices == 1..BYTES_PER_WORD
ZeroWord == [i \in ByteIndices |-> 0]
WordOfByte(b) == [i \in ByteIndices |-> IF i = 1 THEN b ELSE 0]

\* w >> 8*n and w << 8*n on 64-bit words
shift_right_bytes(w, n) ==
    [i \in ByteIndices |-> IF i + n <= BYTES_PER_WORD THEN w[i + n] ELSE 0]
shift_left_bytes(w, n) ==
    [i \in ByteIndices |-> IF i - n >= 1 THEN w[i - n] ELSE 0]

\* (w >> n) & 1 for a 64-bit word w.  A shift count of 64 or more is
\* undefined in C++: either outcome may be produced.
shifted_bit(w, n) ==
    IF n < 8 * BYTES_PER_WORD
    THEN {Bit(w[(n \div 8) + 1], n % 8) = 1}
    ELSE BOOLEAN

HTIF_DEVICE_YIELD == 2

\* Possible results of machine_state::brk_from_iflags_Y
brk_from_iflags_Y(fl, h) ==
    IF fl.Y
    THEN LET dev == shift_right_bytes(h.tohost, 7)
             cmd == shift_right_bytes(shift_left_bytes(h.tohost, 1), 7)
         IN  IF dev = WordOfByte(HTIF_DEVICE_YIELD)
             THEN shifted_bit(h.iyield, cmd[1])
             ELSE {FALSE}
    ELSE {FALSE}

\* brk |= (mip & mie) with brk a bool: any non-zero value converts to true
brk_or_mip_mie_low_bit(b, ip, ie) == b \/ (BitAnd(ip, ie) % 2 = 1)

brk_or_mip_mie(b, ip, ie) == b \/ (BitAnd(ip, ie) # 0)

set_brk ==
    /\ brk' = TRUE
    /\ UNCHANGED <<mie, mip, iflags, htif, caller>>

\* The callers update brk after they changed mip or mie.
or_brk_with_mip_mie ==
    /\ brk' = brk_or_mip_mie(brk, mip, mie)
    /\ caller' = "idle"
    /\ UNCHANGED <<mie, mip, iflags, htif>>

or_brk_with_iflags_H ==
    /\ brk' = (brk \/ iflags.H)
    /\ UNCHANGED <<mie, mip, iflags, htif, caller>>

or_brk_with_iflags_Y ==
    /\ \E y \in brk_from_iflags_Y(iflags, htif) : brk' = (brk \/ y)
    /\ UNCHANGED <<mie, mip, iflags, htif, caller>>

set_brk_from_all ==
    /\ \E y \in brk_from_iflags_Y(iflags, htif) :
          brk' = (brk_or_mip_mie(FALSE, mip, mie) \/ y \/ iflags.H)
    /\ caller' = "idle"
    /\ UNCHANGED <<mie, mip, iflags, htif>>

\* The entry points of machine.h that change the fields brk depends on
machine_write_mie(val) ==
    /\ mie' = val
    /\ caller' = "changed"
    /\ UNCHANGED <<mip, brk, iflags, htif>>

machine_set_mip(mask) ==
    /\ mip' = BitOr(mip, mask)
    /\ caller' = "changed"
    /\ UNCHANGED <<mie, brk, iflags, htif>>

machine_reset_mip(mask) ==
    /\ mip' = BitClear(mip, mask)
    /\ UNCHANGED <<mie, brk, iflags, htif, caller>>

machine_set_iflags_H ==
    /\ iflags' = [iflags EXCEPT !.H = TRUE]
    /\ UNCHANGED <<mie, mip, brk, htif, caller>>

machine_write_iflags_Y(y) ==
    /\ iflags' = [iflags EXCEPT !.Y = y]
    /\ UNCHANGED <<mie, mip, brk, htif, caller>>

HtifWord(dev, cmd, low) ==
    [i \in ByteIndices |-> IF i = 8 THEN dev ELSE IF i = 7 THEN cmd
                           ELSE IF i = 1 THEN low ELSE 0]

\* The devices and commands the HTIF tells apart, and the first command
\* that is no bit number of a 64-bit word
HtifDevices == {0, 1, 2}
HtifCmds == {0, 1, 8 * BYTES_PER_WORD}
IyieldWords == {WordOfByte(b) : b \in 0..(2 ^ YieldBits - 1)}

---------------------------------------------------------------------------
(* The shadow device *)

MaxSet == 1         \* registers, CSRs and PMAs that may be non-zero at once

PMA_PAGE_SIZE == 2 ^ LOG2_PAGE_SIZE
XREGS == 32
SHADOW_CSR_BASE == 256
UINT32_BITS == 32

RegIndices == 0..(XREGS - 1)

\* shadow_csr in the order of its enumerators
ShadowCsrs ==
    <<"pc", "mvendorid", "marchid", "mimpid", "mcycle", "minstret", "mstatus",
      "mtvec", "mscratch", "mepc", "mcause", "mtval", "misa", "mie", "mip",
      "medeleg", "mideleg", "mcounteren", "stvec", "sscratch", "sepc", "scause",
      "stval", "satp", "scounteren", "ilrsc", "iflags">>

CsrNames == {ShadowCsrs[k] : k \in DOMAIN ShadowCsrs}

\* CSRs kept in the record csr; mie, mip and iflags have variables of their own
PlainCsrs == CsrNames \ {"mie", "mip", "iflags"}

shadow_csr(name) ==
    LET k == CHOOSE i \in DOMAIN ShadowCsrs : ShadowCsrs[i] = name
    IN  SHADOW_CSR_BASE + (k - 1) * SIZEOF_WORD

\* Conversion of a value to uint32_t; the values kept here are below 2^31
to_uint32(val) == IF UINT32_BITS >= 31 THEN val ELSE val % (2 ^ UINT32_BITS)

IFLAGS_H_SHIFT == 0
IFLAGS_Y_SHIFT == 1
IFLAGS_I_SHIFT == 2
IFLAGS_PRV_SHIFT == 3

ToInt(b) == IF b THEN 1 ELSE 0

packed_iflags(PRV, I, Y, H) ==
    PRV * 2 ^ IFLAGS_PRV_SHIFT + I * 2 ^ IFLAGS_I_SHIFT
        + Y * 2 ^ IFLAGS_Y_SHIFT + H * 2 ^ IFLAGS_H_SHIFT

read_iflags(fl) == packed_iflags(fl.PRV, ToInt(fl.I), ToInt(fl.Y), ToInt(fl.H))

machine_read_register(i) == x[i]

\* machine_read_<name>
machine_read_csr(name) ==
    IF name = "mie" THEN to_uint32(mie)
    ELSE IF name = "mip" THEN to_uint32(mip)
    ELSE IF name = "iflags" THEN read_iflags(iflags)
    ELSE csr[name]

machine_get_pma_count == Len(s_pmas)

\* The page as the words at its aligned offsets
PageOffsets == {SIZEOF_WORD * k : k \in 0..((PMA_PAGE_SIZE \div SIZEOF_WORD) - 1)}

\* a value that no register holds, left in a buffer by its previous user
StaleWord == MaxWord + 5

memset_skipped(buffer) == buffer

memset_zero(buffer) == [o \in DOMAIN buffer |-> 0]

\* The calls of write_shadow that shadow_peek makes, in their order
register_writes ==
    [k \in 1..XREGS |->
        [offset |-> shadow_get_register_rel_addr(k - 1),
         value |-> machine_read_register(k - 1)]]

csr_writes ==
    [k \in DOMAIN ShadowCsrs |->
        [offset |-> shadow_get_csr_rel_addr(shadow_csr(ShadowCsrs[k])),
         value |-> machine_read_csr(ShadowCsrs[k])]]

pma_writes ==
    [k \in 1..(2 * machine_get_pma_count) |->
        LET i == (k - 1) \div 2
            ai == shadow_get_pma_rel_addr(i)
        IN  IF k % 2 = 1
            THEN [offset |-> ai, value |-> s_pmas[i + 1].istart]
            ELSE [offset |-> ai + SIZEOF_WORD, value |-> s_pmas[i + 1].ilength]]

\* write_shadow applied for each element of ws in turn: a later write to an
\* offset replaces an earlier one
write_shadow_all(base, ws) ==
    [o \in DOMAIN base |->
        LET hits == {k \in DOMAIN ws : ws[k].offset = o}
        IN  IF hits = {} THEN base[o]
            ELSE ws[CHOOSE k \in hits : \A j \in hits : j <= k].value]

shadow_peek(page_offset) ==
    /\ phase = "machine"
    /\ phase' = "peeked"
    /\ IF page_offset # 0
       THEN /\ peek' = [page_offset |-> page_offset, ret |-> FALSE,
                        page_data |-> "nullptr"]
            /\ shadow' = shadow
       ELSE /\ peek' = [page_offset |-> page_offset, ret |-> TRUE,
                        page_data |-> "shadow"]
            /\ shadow' = write_shadow_all(memset_zero(shadow),
                            register_writes \o csr_writes \o pma_writes)
    /\ UNCHANGED <<x, csr, s_pmas>>

\* Registers, CSRs and PMAs that are not zero
NonZeroCount ==
    Cardinality({i \in RegIndices : x[i] # 0})
        + Cardinality({n \in PlainCsrs : csr[n] # 0})
        + ToInt(mie # 0) + ToInt(mip # 0) + Len(s_pmas)

MaySet(val) == val = 0 \/ NonZeroCount < MaxSet

machine_write_register(i, val) ==
    /\ phase = "machine"
    /\ MaySet(val)
    /\ x' = [x EXCEPT ![i] = val]
    /\ UNCHANGED <<csr, s_pmas, shadow, peek>>

\* machine_write_<name>
machine_write_csr(name, val) ==
    /\ phase = "machine"
    /\ MaySet(val)
    /\ csr' = [csr EXCEPT ![name] = val]
    /\ UNCHANGED <<x, s_pmas, shadow, peek>>

PMA_MAX == 32
PmaStarts == {make_istart(0, 0, 1, 0, DID_shadow),
              make_istart(2 * PMA_PAGE_SIZE, 1, 0, 0, DID_memory)}

machine_register_pma(istart, ilength) ==
    /\ phase = "machine"
    /\ Len(s_pmas) < PMA_MAX
    /\ Len(s_pmas) < MaxPma
    /\ MaySet(1)
    /\ s_pmas' = Append(s_pmas, [istart |-> istart, ilength |-> ilength])
    /\ UNCHANGED <<x, csr, shadow, peek>>

NoPeek == [page_offset |-> 0, ret |-> FALSE, page_data |-> "none"]

\* No buffer is allocated until a page is asked for.
NoBuffer == <<>>
StaleBuffer == [o \in PageOffsets |-> StaleWord]

InitShadowState(buffer) ==
    /\ x = [i \in RegIndices |-> 0]
    /\ csr = [n \in PlainCsrs |-> 0]
    /\ s_pmas = <<>>
    /\ shadow = buffer
    /\ peek = NoPeek

\* The machine as machine_init leaves it
InitState ==
    /\ mie = 0
    /\ mip = 0
    /\ brk = FALSE
    /\ iflags = [PRV |-> 3, I |-> FALSE, Y |-> FALSE, H |-> FALSE]
    /\ htif = [tohost |-> ZeroWord, fromhost |-> ZeroWord, iyield |-> ZeroWord]
    /\ caller = "idle"

---------------------------------------------------------------------------
(* The HTIF and CLINT registers (machine.cpp).  A 32-bit value is kept as   *)
(* its 4 bytes, least significant first.                                     *)

BYTES_PER_HALF == 4
HalfIndices == 1..BYTES_PER_HALF
ZeroHalf == [i \in HalfIndices |-> 0]

word_and(a, b) == [i \in ByteIndices |-> BitAnd(a[i], b[i])]
word_or(a, b) == [i \in ByteIndices |-> BitOr(a[i], b[i])]

\* (uint64_t)val and (uint64_t)val << 32 for a 32-bit val
zero_extend(val) == [i \in ByteIndices |-> IF i <= BYTES_PER_HALF THEN val[i] ELSE 0]
shift_to_high(val) ==
    [i \in ByteIndices |-> IF i > BYTES_PER_HALF THEN val[i - BYTES_PER_HALF] ELSE 0]

\* 0xffffffff has type unsigned int: converted to 64 bits it is the low half
\* set, and its complement, taken in 32 bits before the conversion, is 0.
LOW_HALF_MASK == [i \in ByteIndices |-> IF i <= BYTES_PER_HALF THEN 255 ELSE 0]
NOT_LOW_HALF_MASK == ZeroWord

\* word & ~0xffffffff | val and word & 0xffffffff | (uint64_t)val << 32
store_low_half(word, val) == word_or(word_and(word, NOT_LOW_HALF_MASK), zero_extend(val))
store_high_half(word, val) == word_or(word_and(word, LOW_HALF_MASK), shift_to_high(val))

HTIF_DEVICE_HALT == 0
HTIF_DEVICE_CONSOLE == 1
HTIF_CMD_GETCHAR == 0
HTIF_CMD_PUTCHAR == 1

\* htif_handle_cmd on the registers h and the halt flag: the new registers
\* and halt flag
htif_handle_cmd_acknowledging(h, halt) ==
    LET device == shift_right_bytes(h.tohost, 7)[1]
        cmd == shift_right_bytes(h.tohost, 6)[1]
    IN  [htif |-> [h EXCEPT !.tohost = ZeroWord,
                            !.fromhost = HtifWord(device, cmd, 0)],
         shuthost |-> halt]

htif_handle_cmd(h, halt) ==
    LET device == shift_right_bytes(h.tohost, 7)[1]
        cmd == shift_right_bytes(h.tohost, 6)[1]
        payload_bit == Bit(h.tohost[1], 0)
    IN  IF device = HTIF_DEVICE_HALT /\ cmd = 0 /\ payload_bit = 1
        THEN [htif |-> h, shuthost |-> TRUE]
        ELSE IF device = HTIF_DEVICE_CONSOLE /\ cmd = HTIF_CMD_PUTCHAR
        THEN [htif |-> [h EXCEPT !.tohost = ZeroWord,
                                 !.fromhost = HtifWord(device, cmd, 0)],
              shuthost |-> halt]
        ELSE IF device = HTIF_DEVICE_CONSOLE /\ cmd = HTIF_CMD_GETCHAR
        THEN [htif |-> [h EXCEPT !.tohost = ZeroWord], shuthost |-> halt]
        ELSE [htif |-> h, shuthost |-> halt]

\* Whether a write at an offset of the HTIF ends in htif_handle_cmd
htif_write_handles_any_tohost(offset) == offset \in {0, 4}

htif_write_handles(offset) == offset = 4

htif_write(offset, val) ==
    LET stored ==
            IF offset = 0 THEN [htif EXCEPT !.tohost = store_low_half(htif.tohost, val)]
            ELSE IF offset = 4 THEN [htif EXCEPT !.tohost = store_high_half(htif.tohost, val)]
            ELSE IF offset = 8 THEN [htif EXCEPT !.fromhost = store_low_half(htif.fromhost, val)]
            ELSE IF offset = 12 THEN [htif EXCEPT !.fromhost = store_high_half(htif.fromhost, val)]
            ELSE htif
        handled == IF htif_write_handles(offset)
                   THEN htif_handle_cmd(stored, shuthost)
                   ELSE [htif |-> stored, shuthost |-> shuthost]
    IN  /\ htif' = handled.htif
        /\ shuthost' = handled.shuthost
        /\ con' = IF offset = 12 /\ con.attached THEN [con EXCEPT !.irq_pending = FALSE]
                  ELSE con
        /\ dev_req' = [op |-> "htif_write", offset |-> offset, val |-> val,
                       handled |-> htif_write_handles(offset),
                       decoded |-> stored.tohost,
                       htif |-> htif, shuthost |-> shuthost, timecmp |-> timecmp,
                       mip |-> mip, iflags |-> iflags, brk |-> brk]
        /\ UNCHANGED <<timecmp, power_down, cpu_mcycle, run, mie, mip, brk, iflags, caller>>

MIP_MTIP == 2 ^ 7
MIP_MSIP == 2 ^ 3

riscv_cpu_reset_mip(ip, mask) == BitClear(ip, mask)

CLINT_MTIMECMP == 16384

\* The offsets at which clint_write resets MTIP
clint_write_resets_low_only(offset) == offset = CLINT_MTIMECMP

clint_write_resets(offset) ==
    offset \in {CLINT_MTIMECMP, CLINT_MTIMECMP + BYTES_PER_HALF}

\* clint_read of mtimecmp: the low 32 bits of m->timecmp or of m->timecmp >> 32
\* at its two offsets, 0 elsewhere
clint_read_timecmp(tc, offset) ==
    IF offset = CLINT_MTIMECMP THEN [i \in HalfIndices |-> tc[i]]
    ELSE IF offset = CLINT_MTIMECMP + BYTES_PER_HALF
    THEN [i \in HalfIndices |-> shift_right_bytes(tc, BYTES_PER_HALF)[i]]
    ELSE ZeroHalf

clint_write(offset, val) ==
    /\ timecmp' = IF offset = CLINT_MTIMECMP THEN store_low_half(timecmp, val)
                  ELSE IF offset = CLINT_MTIMECMP + BYTES_PER_HALF
                  THEN store_high_half(timecmp, val)
                  ELSE timecmp
    /\ mip' = IF clint_write_resets(offset) THEN riscv_cpu_reset_mip(mip, MIP_MTIP)
              ELSE mip
    /\ dev_req' = [op |-> "clint_write", offset |-> offset, val |-> val,
                   handled |-> FALSE, decoded |-> ZeroWord,
                   htif |-> htif, shuthost |-> shuthost, timecmp |-> timecmp,
                   mip |-> mip, iflags |-> iflags, brk |-> brk]
    /\ UNCHANGED <<htif, shuthost, con, power_down, cpu_mcycle, run, mie, brk, iflags, caller>>

\* riscv_cpu_set_mip, as the interrupt sources call it
\* riscv_cpu_set_mip: the CPU leaves power-down when an enabled interrupt
\* becomes pending
set_mip_result(ip, ie, pd, mask) ==
    [mip |-> BitOr(ip, mask),
     power_down |-> (pd /\ BitAnd(BitOr(ip, mask), ie) = 0)]

riscv_cpu_set_mip(mask) ==
    /\ mip' = set_mip_result(mip, mie, power_down, mask).mip
    /\ power_down' = set_mip_result(mip, mie, power_down, mask).power_down
    /\ dev_req' = [dev_req EXCEPT !.op = "none"]
    /\ UNCHANGED <<htif, shuthost, con, timecmp, cpu_mcycle, run, mie, brk, iflags, caller>>

(* virt_machine_run.  In the run loop the 64-bit counters mcycle, timecmp   *)
(* and cycles_end are integers kept modulo 2^TimeBits.                     *)

TimeBits == 7       \* bits kept of the 64-bit counters of the run loop
TimeModulus == 2 ^ TimeBits

RTC_FREQ_DIV == 100

rtc_cycles_to_time(cycle_counter) == cycle_counter \div RTC_FREQ_DIV

rtc_time_to_cycles(time) == (time * RTC_FREQ_DIV) % TimeModulus

\* The end of the inner run: the next multiple of RTC_FREQ_DIV, or cycles_end
cycles_div_end_of(cycles) ==
    (cycles + RTC_FREQ_DIV - (cycles % RTC_FREQ_DIV)) % TimeModulus

this_cycles_end_unbounded(cycles, cycles_end) == cycles_div_end_of(cycles)

this_cycles_end_of(cycles, cycles_end) ==
    IF cycles_end > cycles_div_end_of(cycles) THEN cycles_div_end_of(cycles)
    ELSE cycles_end

\* What riscv_cpu_run may leave behind: the CPU executes nothing when it is
\* powered down, shut down or at the end of its run; otherwise it runs to
\* the end, or stops earlier because the guest halted the machine or
\* executed WFI.
riscv_cpu_run_outcomes(cycles, end, pd, halt) ==
    IF pd \/ halt \/ cycles >= end
    THEN {[mcycle |-> cycles, power_down |-> pd, shuthost |-> halt]}
    ELSE {[mcycle |-> end, power_down |-> FALSE, shuthost |-> FALSE]}
         \cup {[mcycle |-> c, power_down |-> FALSE, shuthost |-> TRUE] :
                  c \in {cycles + 1, end}}
         \cup {[mcycle |-> c, power_down |-> TRUE, shuthost |-> FALSE] :
                  c \in {cycles + 1, end}}

\* The tests that follow riscv_cpu_run: the call returns 0 or 1, or the
\* loop goes on
run_result_halt_first(cycles, cycles_end, halt) ==
    IF halt THEN [returned |-> TRUE, ret |-> 1]
    ELSE IF cycles >= cycles_end THEN [returned |-> TRUE, ret |-> 0]
    ELSE [returned |-> FALSE, ret |-> 0]

run_result(cycles, cycles_end, halt) ==
    IF cycles >= cycles_end THEN [returned |-> TRUE, ret |-> 0]
    ELSE IF halt THEN [returned |-> TRUE, ret |-> 1]
    ELSE [returned |-> FALSE, ret |-> 0]

\* The timer test of the loop: raise MTIP, skip time, or neither
timer_action_no_raise(ip, cycles, cycles_end, time_cmp, pd) ==
    IF BitAnd(ip, MIP_MTIP) = 0 /\ pd /\ rtc_time_to_cycles(time_cmp) > cycles
    THEN [kind |-> "skip",
          mcycle |-> IF rtc_time_to_cycles(time_cmp) < cycles_end
                     THEN rtc_time_to_cycles(time_cmp) ELSE cycles_end]
    ELSE [kind |-> "none", mcycle |-> cycles]

timer_action_skip_expired(ip, cycles, cycles_end, time_cmp, pd) ==
    IF BitAnd(ip, MIP_MTIP) = 0 /\ pd
    THEN [kind |-> "skip",
          mcycle |-> IF rtc_time_to_cycles(time_cmp) < cycles_end
                     THEN rtc_time_to_cycles(time_cmp) ELSE cycles_end]
    ELSE [kind |-> "none", mcycle |-> cycles]

timer_action(ip, cycles, cycles_end, time_cmp, pd) ==
    IF BitAnd(ip, MIP_MTIP) = 0
    THEN LET timer_cycles == rtc_time_to_cycles(time_cmp)
         IN  IF timer_cycles <= cycles THEN [kind |-> "raise", mcycle |-> cycles]
             ELSE IF pd
             THEN [kind |-> "skip",
                   mcycle |-> IF timer_cycles < cycles_end THEN timer_cycles
                              ELSE cycles_end]
             ELSE [kind |-> "none", mcycle |-> cycles]
    ELSE [kind |-> "none", mcycle |-> cycles]

virt_machine_run_call(cycles_end) ==
    /\ run.pc = "none"
    /\ run' = [pc |-> "cpu", cycles_end |-> cycles_end, cycles |-> cpu_mcycle,
               ret |-> 0, entry |-> cpu_mcycle,
               raised |-> [at |-> "none", mcycle |-> 0, timecmp |-> 0]]
    /\ UNCHANGED <<timecmp, shuthost, power_down, cpu_mcycle, con, dev_req,
                   mie, mip, brk, iflags, htif, caller>>

\* Lines 677-685: the inner run of the CPU
virt_machine_run_cpu ==
    /\ run.pc = "cpu"
    /\ \E out \in riscv_cpu_run_outcomes(cpu_mcycle,
                      this_cycles_end_of(cpu_mcycle, run.cycles_end),
                      power_down, shuthost) :
          /\ cpu_mcycle' = out.mcycle
          /\ power_down' = out.power_down
          /\ shuthost' = out.shuthost
          /\ run' = [run EXCEPT !.pc = "check", !.cycles = out.mcycle]
    /\ UNCHANGED <<timecmp, con, dev_req, mie, mip, brk, iflags, htif, caller>>

\* Lines 687-754: the tests, the timer and the console; input tells whether
\* stdin has a character for a console that waits for one
virt_machine_run_check(input) ==
    /\ run.pc = "check"
    /\ LET result == run_result(run.cycles, run.cycles_end, shuthost)
           timer == timer_action(mip, run.cycles, run.cycles_end, timecmp, power_down)
           set == IF timer.kind = "raise"
                  THEN set_mip_result(mip, mie, power_down, MIP_MTIP)
                  ELSE [mip |-> mip, power_down |-> power_down]
           feed == con.attached /\ ~con.irq_pending /\ input
       IN  IF result.returned
           THEN /\ run' = [run EXCEPT !.pc = "returned", !.ret = result.ret]
                /\ UNCHANGED <<mip, power_down, cpu_mcycle, con, htif>>
           ELSE /\ mip' = set.mip
                /\ cpu_mcycle' = timer.mcycle
                /\ power_down' = (set.power_down /\ ~feed)
                /\ con' = IF feed THEN [con EXCEPT !.irq_pending = TRUE] ELSE con
                /\ htif' = IF feed
                           THEN [htif EXCEPT !.fromhost = HtifWord(1, 0, 1)]
                           ELSE htif
                /\ run' = [run EXCEPT
                            !.pc = "cpu",
                            !.raised = IF timer.kind = "raise"
                                       THEN [at |-> "loop", mcycle |-> run.cycles,
                                             timecmp |-> timecmp]
                                       ELSE @]
    /\ UNCHANGED <<timecmp, shuthost, dev_req, mie, brk, iflags, caller>>

\* ---- The console and its buffer

ConsoleBufSize == 2     \* bytes kept of HTIFConsole::buf

CTRL_D == 4

BufIndices == 1..ConsoleBufSize

\* Lines 723-743: the buffer after the attempt to fill it again.  ready tells
\* whether select found stdin readable, nread is what read() returned and
\* data holds the bytes it stored
console_refill(c, ready, nread, data) ==
    IF c.buf_pos >= c.buf_len /\ ready
    THEN IF nread <= 0
         THEN [c EXCEPT !.buf_pos = 0, !.buf_len = 1, !.buf = [@ EXCEPT ![1] = CTRL_D]]
         ELSE [c EXCEPT !.buf_pos = 0, !.buf_len = nread,
                        !.buf = [i \in BufIndices |-> IF i <= nread THEN data[i] ELSE @[i]]]
    ELSE c

\* The console block without the test of irq_pending
console_io_while_pending(c, ready, nread, data) ==
    LET filled == console_refill(c, ready, nread, data)
    IN  IF c.attached
        THEN IF filled.buf_pos < filled.buf_len
             THEN [con |-> [filled EXCEPT !.buf_pos = @ + 1, !.irq_pending = TRUE],
                   fed |-> TRUE, ch |-> filled.buf[filled.buf_pos + 1]]
             ELSE [con |-> filled, fed |-> FALSE, ch |-> 0]
        ELSE [con |-> c, fed |-> FALSE, ch |-> 0]

\* Lines 717-753: the console after the block, whether a character was fed
\* and which
console_io(c, ready, nread, data) ==
    IF c.attached /\ ~c.irq_pending
    THEN LET filled == console_refill(c, ready, nread, data)
         IN  IF filled.buf_pos < filled.buf_len
             THEN [con |-> [filled EXCEPT !.buf_pos = @ + 1, !.irq_pending = TRUE],
                   fed |-> TRUE, ch |-> filled.buf[filled.buf_pos + 1]]
             ELSE [con |-> filled, fed |-> FALSE, ch |-> 0]
    ELSE [con |-> c, fed |-> FALSE, ch |-> 0]

\* Lines 687-754 with the console's buffer: the tests, the timer and the
\* console
virt_machine_run_check_console(ready, nread, data) ==
    /\ run.pc = "check"
    /\ LET result == run_result(run.cycles, run.cycles_end, shuthost)
           timer == timer_action(mip, run.cycles, run.cycles_end, timecmp, power_down)
           set == IF timer.kind = "raise"
                  THEN set_mip_result(mip, mie, power_down, MIP_MTIP)
                  ELSE [mip |-> mip, power_down |-> power_down]
           io == console_io(con, ready, nread, data)
       IN  IF result.returned
           THEN /\ run' = [run EXCEPT !.pc = "returned", !.ret = result.ret]
                /\ UNCHANGED <<mip, power_down, cpu_mcycle, con, htif>>
           ELSE /\ mip' = set.mip
                /\ cpu_mcycle' = timer.mcycle
                /\ power_down' = (set.power_down /\ ~io.fed)
                /\ con' = io.con
                /\ htif' = IF io.fed
                           THEN [htif EXCEPT !.fromhost =
                                    HtifWord(HTIF_DEVICE_CONSOLE, HTIF_CMD_GETCHAR, io.ch)]
                           ELSE htif
                /\ run' = [run EXCEPT
                            !.pc = "cpu",
                            !.raised = IF timer.kind = "raise"
                                       THEN [at |-> "loop", mcycle |-> run.cycles,
                                             timecmp |-> timecmp]
                                       ELSE @]
    /\ UNCHANGED <<timecmp, shuthost, dev_req, mie, brk, iflags, caller>>

\* htif_console_init: the console that mallocz leaves
BufferedConsole ==
    [attached |-> TRUE, irq_pending |-> FALSE, buf_pos |-> 0, buf_len |-> 0,
     buf |-> [i \in BufIndices |-> 0]]

NoDevReq ==
    [op |-> "none", offset |-> 0, val |-> ZeroHalf, handled |-> FALSE,
     decoded |-> ZeroWord, htif |-> [tohost |-> ZeroWord, fromhost |-> ZeroWord,
                                     iyield |-> ZeroWord],
     shuthost |-> FALSE, timecmp |-> ZeroWord, mip |-> 0,
     iflags |-> [PRV |-> 3, I |-> FALSE, Y |-> FALSE, H |-> FALSE], brk |-> FALSE]

NoRun ==
    [pc |-> "none", cycles_end |-> 0, cycles |-> 0, ret |-> 0, entry |-> 0,
     raised |-> [at |-> "none", mcycle |-> 0, timecmp |-> 0]]

\* htif_console is NULL, or points to a console
NoConsole == [attached |-> FALSE, irq_pending |-> FALSE]
Console == [attached |-> TRUE, irq_pending |-> FALSE]

\* The machine as virt_machine_init leaves it, without a console
InitVirt ==
    /\ timecmp = ZeroWord
    /\ shuthost = FALSE
    /\ power_down = FALSE
    /\ cpu_mcycle = 0
    /\ con = NoConsole
    /\ dev_req = NoDevReq
    /\ run = NoRun

(* The physical memory map (iomem.c).  Addresses and sizes are 64-bit      *)
(* values kept modulo 2^AddrBits.                                         *)

AddrBits == 14      \* bits kept of physical addresses and sizes
MaxRanges == 2      \* ranges registered in one map

AddrModulus == 2 ^ AddrBits

DEVRAM_PAGE_SIZE_LOG2 == 12
DEVRAM_PAGE_SIZE == 2 ^ DEVRAM_PAGE_SIZE_LOG2

\* What a failed assert does: it ends the process, or is compiled out
\* (NDEBUG) and the code goes on
assert_outcomes(cond) == IF cond THEN {"pass"} ELSE {"abort", "pass"}

NoMap == [ranges |-> <<>>, status |-> "none"]

\* phys_mem_map_init
EmptyMap == [ranges |-> <<>>, status |-> "running"]

\* The entry register_ram_entry fills in
ram_entry(addr, size, disabled) ==
    [addr |-> addr, org_size |-> size, size |-> IF disabled THEN 0 ELSE size,
     is_ram |-> TRUE, is_backed |-> FALSE, phys_mem |-> "NULL"]

\* The entry cpu_register_device fills in
device_entry(addr, size, disabled) ==
    [addr |-> addr, org_size |-> size, size |-> IF disabled THEN 0 ELSE size,
     is_ram |-> FALSE, is_backed |-> FALSE, phys_mem |-> "NULL"]

register_ram_entry_checks(size) ==
    (size % DEVRAM_PAGE_SIZE = 0) /\ size # 0

\* The pointer cpu_register_backed_ram accepts from mmap
mmap_accepted(ptr) == ptr # "NULL"

\* The end of a range as the lookup computes it: pr->addr + pr->size
range_end(pr) == (pr.addr + pr.size) % AddrModulus

\* get_phys_mem_range: the index of the range returned, 0 for NULL
RECURSIVE get_phys_mem_range_from(_, _, _)
get_phys_mem_range_from(ranges, i, paddr) ==
    IF i > Len(ranges) THEN 0
    ELSE IF paddr >= ranges[i].addr /\ paddr < range_end(ranges[i]) THEN i
    ELSE get_phys_mem_range_from(ranges, i + 1, paddr)

NoHostReq == [op |-> "none"]

\* cpu_register_ram; the allocation succeeds
cpu_register_ram(addr, size, disabled) ==
    /\ mem_map.status = "running"
    /\ Len(mem_map.ranges) < MaxRanges
    /\ \E checked \in assert_outcomes(register_ram_entry_checks(size)) :
          IF checked = "abort"
          THEN mem_map' = [mem_map EXCEPT !.status = "aborted"]
          ELSE mem_map' = [mem_map EXCEPT !.ranges =
                              Append(@, [ram_entry(addr, size, disabled)
                                            EXCEPT !.phys_mem = "allocated"])]
    /\ host_req' = [op |-> "register_ram", addr |-> addr, size |-> size]
    /\ UNCHANGED boot

\* cpu_register_backed_ram; host tells what open and mmap return
cpu_register_backed_ram(addr, size, disabled, host) ==
    /\ mem_map.status = "running"
    /\ Len(mem_map.ranges) < MaxRanges
    /\ \E checked \in assert_outcomes(register_ram_entry_checks(size)) :
          LET pr == ram_entry(addr, size, disabled)
              ptr == IF host = "mmap_fails" THEN "MAP_FAILED" ELSE "mapped"
          IN  IF checked = "abort"
              THEN mem_map' = [mem_map EXCEPT !.status = "aborted"]
              ELSE IF host = "open_fails"
              THEN mem_map' = [ranges |-> Append(mem_map.ranges, pr),
                               status |-> "exited"]
              ELSE IF ~mmap_accepted(ptr)
              THEN mem_map' = [ranges |-> Append(mem_map.ranges,
                                              [pr EXCEPT !.phys_mem = ptr]),
                               status |-> "exited"]
              ELSE mem_map' = [mem_map EXCEPT !.ranges =
                                  Append(@, [pr EXCEPT !.phys_mem = ptr,
                                                       !.is_backed = TRUE])]
    /\ host_req' = [op |-> "register_backed_ram", addr |-> addr, size |-> size,
                    host |-> host]
    /\ UNCHANGED boot

\* cpu_register_device; every size kept here is below 2^32
cpu_register_device(addr, size, disabled) ==
    /\ mem_map.status = "running"
    /\ Len(mem_map.ranges) < MaxRanges
    /\ mem_map' = [mem_map EXCEPT !.ranges =
                      Append(@, device_entry(addr, size, disabled))]
    /\ host_req' = [op |-> "register_device", addr |-> addr, size |-> size]
    /\ UNCHANGED boot

get_phys_mem_range(paddr) ==
    /\ mem_map.status = "running"
    /\ host_req' = [op |-> "get_phys_mem_range", paddr |-> paddr,
                    ret |-> get_phys_mem_range_from(mem_map.ranges, 1, paddr)]
    /\ UNCHANGED <<mem_map, boot>>


---------------------------------------------------------------------------
(* The boot trampoline (copy_boot_image) *)

\* Unsigned integers of the host are kept as their bytes, least significant
\* first: 8 bytes for uint64_t, 4 for uint32_t.
BYTE_BITS == 8
ByteModulus == 2 ^ BYTE_BITS
SIZEOF_UINT32 == 4

\* The constant n (below 2^31) as a uint64_t
uint64_of(n) ==
    [i \in ByteIndices |->
        IF i > SIZEOF_UINT32 THEN 0 ELSE (n \div (ByteModulus ^ (i - 1))) % ByteModulus]

\* The carry into byte i of a + b
RECURSIVE carry_into(_, _, _)
carry_into(a, b, i) ==
    IF i = 1 THEN 0 ELSE (a[i - 1] + b[i - 1] + carry_into(a, b, i - 1)) \div ByteModulus

\* a + b, a - b and a << n on uint64_t
add64(a, b) == [i \in ByteIndices |-> (a[i] + b[i] + carry_into(a, b, i)) % ByteModulus]
not64(a) == [i \in ByteIndices |-> ByteModulus - 1 - a[i]]
sub64(a, b) == add64(add64(a, not64(b)), uint64_of(1))
byte_or_zero(a, i) == IF i \in ByteIndices THEN a[i] ELSE 0
shl64(a, n) ==
    [i \in ByteIndices |->
        ((byte_or_zero(a, i - (n \div BYTE_BITS)) * (2 ^ (n % BYTE_BITS))) % ByteModulus)
        + (byte_or_zero(a, i - (n \div BYTE_BITS) - 1) \div (2 ^ (BYTE_BITS - (n % BYTE_BITS))))]

\* The conversion of a uint64_t to uint32_t, and the bytes a uint32_t is
\* stored as
truncate_to_uint32(a) == [i \in 1..SIZEOF_UINT32 |-> a[i]]
uint32_of_halves(hi, lo) ==
    <<lo % ByteModulus, lo \div ByteModulus, hi % ByteModulus, hi \div ByteModulus>>

Ki(n) == shl64(uint64_of(n), 10)
Gi(n) == shl64(uint64_of(n), 30)
LOW_RAM_BASE_ADDR == Ki(4)
RAM_BASE_ADDR == Gi(2)

\* fdt_addr = 8 * 8
fdt_addr == uint64_of(8 * 8)

\* q[0] .. q[4] of copy_boot_image
trampoline_auipc_t0 ==
    truncate_to_uint32(sub64(add64(uint64_of(663), RAM_BASE_ADDR), LOW_RAM_BASE_ADDR))
trampoline_auipc_a1 == truncate_to_uint32(uint64_of(1431))
trampoline_addi_a1_from_base ==
    truncate_to_uint32(add64(uint64_of(361875), shl64(fdt_addr, 20)))
trampoline_addi_a1 ==
    truncate_to_uint32(add64(uint64_of(361875),
                    shl64(sub64(fdt_addr, add64(LOW_RAM_BASE_ADDR, uint64_of(4))), 20)))
trampoline_csrr_a0 == uint32_of_halves(61760, 9587)
trampoline_jr_t0 == truncate_to_uint32(uint64_of(163943))

\* The first bytes of low RAM after copy_boot_image
copy_boot_image ==
    trampoline_auipc_t0 \o trampoline_auipc_a1 \o trampoline_addi_a1
    \o trampoline_csrr_a0 \o trampoline_jr_t0

\* processor.pc = 0x1000
INITIAL_PC == uint64_of(4096)

\* ---- The instructions of the trampoline, as the RISC-V ISA defines them
INSN_BITS == BYTE_BITS * SIZEOF_UINT32
OPCODE_AUIPC == 23
OPCODE_OP_IMM == 19
OPCODE_SYSTEM == 115
OPCODE_JALR == 103
FUNCT3_CSRRS == 2
CSR_MHARTID == 3860
REG_T0 == 5
REG_A0 == 10
REG_A1 == 11
Regs == 0..31

\* insn[lo + width - 1 : lo]
RECURSIVE insn_bits(_, _, _)
insn_bits(insn, lo, width) ==
    IF width = 0 THEN 0
    ELSE Bit(insn[(lo \div BYTE_BITS) + 1], lo % BYTE_BITS)
         + 2 * insn_bits(insn, lo + 1, width - 1)

decode(insn) ==
    [opcode |-> insn_bits(insn, 0, 7), rd |-> insn_bits(insn, 7, 5),
     funct3 |-> insn_bits(insn, 12, 3), rs1 |-> insn_bits(insn, 15, 5),
     imm12 |-> insn_bits(insn, 20, 12), imm20 |-> insn_bits(insn, 12, 20)]

\* The sign extension to 64 bits of a value of `width` bits
sign_extend(v, width) ==
    IF v < 2 ^ (width - 1) THEN uint64_of(v)
    ELSE sub64(uint64_of(v), shl64(uint64_of(1), width))

\* imm20 << 12, sign extended from 32 bits
upper_immediate(imm20) ==
    IF imm20 < 2 ^ 19 THEN shl64(uint64_of(imm20), 12)
    ELSE sub64(shl64(uint64_of(imm20), 12), shl64(uint64_of(1), INSN_BITS))

clear_bit0(a) == [a EXCEPT ![1] = a[1] - (a[1] % 2)]

write_register(regs, rd, val) == IF rd = 0 THEN regs ELSE [regs EXCEPT ![rd] = val]

\* One instruction executed by a CPU [pc, x, status]
execute_insn(cpu, insn) ==
    LET d == decode(insn)
        next_pc == add64(cpu.pc, uint64_of(4))
    IN IF d.opcode = OPCODE_AUIPC
       THEN [cpu EXCEPT !.x = write_register(cpu.x, d.rd, add64(cpu.pc, upper_immediate(d.imm20))),
                        !.pc = next_pc]
       ELSE IF d.opcode = OPCODE_OP_IMM /\ d.funct3 = 0
       THEN [cpu EXCEPT !.x = write_register(cpu.x, d.rd,
                                      add64(cpu.x[d.rs1], sign_extend(d.imm12, 12))),
                        !.pc = next_pc]
       ELSE IF d.opcode = OPCODE_SYSTEM /\ d.funct3 = FUNCT3_CSRRS
               /\ d.imm12 = CSR_MHARTID /\ d.rs1 = 0
       THEN [cpu EXCEPT !.x = write_register(cpu.x, d.rd, uint64_of(0)), !.pc = next_pc]
       ELSE IF d.opcode = OPCODE_JALR /\ d.funct3 = 0
       THEN [cpu EXCEPT !.x = write_register(cpu.x, d.rd, next_pc),
                        !.pc = clear_bit0(add64(cpu.x[d.rs1], sign_extend(d.imm12, 12)))]
       ELSE [cpu EXCEPT !.status = "illegal"]

\* The offset of an address from the low-RAM base when it lies in the n
\* bytes that follow it (n below 256), and n otherwise
low_ram_offset(addr, n) ==
    LET off == sub64(addr, LOW_RAM_BASE_ADDR)
    IN IF (\A i \in 2..BYTES_PER_WORD : off[i] = 0) /\ off[1] < n THEN off[1] ELSE n
---------------------------------------------------------------------------
(* Configuration and construction of the machine (machine.cpp) *)

HTIF_SIZE == 16

ExtraFlash == 1     \* flash drives declared beyond the maximum

\* The most flash drives a configuration may hold
VM_MAX_FLASH_DEVICE == 8

MB_SHIFT == 20
INT_BITS == 32

\* (int) p->ram_size for a RAM of memory_size MiB: the low 32 bits of
\* memory_size << 20, read as a two's complement number
ram_size_as_int(memory_size) ==
    LET w == memory_size % (2 ^ (INT_BITS - MB_SHIFT))
    IN IF w >= 2 ^ (INT_BITS - MB_SHIFT - 1)
       THEN (w - 2 ^ (INT_BITS - MB_SHIFT)) * (2 ^ MB_SHIFT)
       ELSE w * (2 ^ MB_SHIFT)

\* load_file on a file of file_len bytes (below 0: the file cannot be
\* opened or read).  malloc(0) may return a null pointer.
load_file(file_len) ==
    IF file_len < 0 THEN {[len |-> 0 - 1, buf |-> "NULL"]}
    ELSE IF file_len = 0 THEN {[len |-> 0, buf |-> b] : b \in {"NULL", "buf"}}
    ELSE {[len |-> file_len, buf |-> "buf"]}

\* The loop over flash0, flash1, ... of virt_lua_load_config: the value of
\* p->flash_count when it ends, for a configuration that declares flash0 ..
\* flash(declared-1)
RECURSIVE flash_loop(_, _)
flash_loop(flash_count, declared) ==
    IF flash_count < VM_MAX_FLASH_DEVICE /\ flash_count < declared
    THEN flash_loop(flash_count + 1, declared)
    ELSE flash_count

too_many_flash_drives(flash_count) == flash_count >= VM_MAX_FLASH_DEVICE

NoParams == [ram_size |-> 0, boot_image |-> [len |-> 0, buf |-> "NULL"], flash_count |-> 0]
NoConfig == [memory_size |-> 0, file_len |-> 0, declared |-> 0]
NoCpu == [pc |-> ZeroWord, x |-> [r \in Regs |-> ZeroWord], status |-> "none"]
NoBoot == [pc |-> "none", cfg |-> NoConfig, p |-> NoParams, error |-> "none",
           low_ram |-> <<>>, cpu |-> NoCpu]

virt_lua_load_config ==
    /\ boot.pc = "config"
    /\ \E image \in load_file(boot.cfg.file_len) :
         LET count == flash_loop(0, boot.cfg.declared)
             p == [ram_size |-> boot.cfg.memory_size, boot_image |-> image,
                   flash_count |-> IF image.len < 0 THEN 0 ELSE count]
             error == IF image.len < 0 THEN "Unable to load"
                      ELSE IF too_many_flash_drives(count) THEN "too many flash drives"
                      ELSE "none"
         IN boot' = [boot EXCEPT !.pc = IF error = "none" THEN "params" ELSE "lua_error",
                                 !.p = p, !.error = error]
    /\ host_req' = [op |-> "virt_lua_load_config"]
    /\ UNCHANGED mem_map

\* The refusals of virt_machine_init
no_boot_image(p) == p.boot_image.buf = "NULL"
kernel_too_big(p) == p.boot_image.len > ram_size_as_int(p.ram_size)

\* The registrations of virt_machine_init, in order; a region is named by
\* its base address and a size is kept in the unit it is given in
init_ranges(p) ==
    <<[call |-> "cpu_register_ram", addr |-> "RAM_BASE_ADDR", size |-> p.ram_size, unit |-> "Mi"],
      [call |-> "cpu_register_ram", addr |-> "LOW_RAM_BASE_ADDR", size |-> 64, unit |-> "Ki"]>>
    \o [i \in 1..p.flash_count |->
          [call |-> "cpu_register_backed_ram", addr |-> "flash", size |-> i - 1, unit |-> "index"]]
    \o <<[call |-> "cpu_register_device", addr |-> "CLINT_BASE_ADDR", size |-> 768, unit |-> "Ki"],
         [call |-> "cpu_register_device", addr |-> "HTIF_BASE_ADDR", size |-> HTIF_SIZE, unit |-> "B"]>>

\* virt_machine_init(p).  The backing file of any flash drive may fail to
\* open, which ends the process inside cpu_register_backed_ram.
virt_machine_init ==
    /\ boot.pc = "params"
    /\ IF no_boot_image(boot.p)
       THEN /\ boot' = [boot EXCEPT !.pc = "null", !.error = "No boot image found"]
            /\ UNCHANGED mem_map
       ELSE IF kernel_too_big(boot.p)
       THEN /\ boot' = [boot EXCEPT !.pc = "null", !.error = "Kernel too big"]
            /\ UNCHANGED mem_map
       ELSE \E failed \in 0..boot.p.flash_count :
              IF failed > 0
              THEN /\ boot' = [boot EXCEPT !.pc = "exited", !.error = "Could not open file"]
                   /\ mem_map' = [ranges |-> SubSeq(init_ranges(boot.p), 1, 2 + failed),
                                  status |-> "exited"]
              ELSE /\ boot' = [boot EXCEPT !.pc = "machine",
                                           !.low_ram = copy_boot_image,
                                           !.cpu = [pc |-> INITIAL_PC,
                                                    x |-> [r \in Regs |-> ZeroWord],
                                                    status |-> "running"]]
                   /\ mem_map' = [ranges |-> init_ranges(boot.p), status |-> "running"]
    /\ host_req' = [op |-> "virt_machine_init"]

\* The CPU of a constructed machine executes the instruction at pc while pc
\* lies in the trampoline
trampoline_step ==
    /\ boot.pc = "machine"
    /\ boot.cpu.status = "running"
    /\ low_ram_offset(boot.cpu.pc, Len(boot.low_ram)) < Len(boot.low_ram)
    /\ LET off == low_ram_offset(boot.cpu.pc, Len(boot.low_ram))
           insn == SubSeq(boot.low_ram, off + 1, off + SIZEOF_UINT32)
       IN boot' = [boot EXCEPT !.cpu = execute_insn(boot.cpu, insn)]
    /\ host_req' = [op |-> "step"]
    /\ UNCHANGED mem_map


InitHost ==
    /\ mem_map = NoMap
    /\ host_req = NoHostReq
    /\ boot = NoBoot

InitMachine ==
    /\ InitState
    /\ InitShadowState(NoBuffer)
    /\ InitVirt
    /\ InitHost

---------------------------------------------------------------------------
(* Replay of a logged step *)

ShadowIstart == make_istart(PMA_SHADOW_START, 0, 1, 0, DID_shadow)
EmptyIstart == make_istart(0, 0, 0, 1, DID_memory)

\* Before the step x1 holds 1 and x2 holds 0; PMA slot 0 describes the shadow
\* page and the slots after it are empty.
InitMem ==
    [a \in TouchedAddrs |->
        IF a = PMA_SHADOW_START + shadow_get_register_rel_addr(1) THEN 1
        ELSE IF a = PmaIstartAddr(0) THEN ShadowIstart
        ELSE IF a = PmaIlengthAddr(0) THEN 2 ^ LOG2_PAGE_SIZE
        ELSE IF a \in {PmaIstartAddr(i) : i \in PmaSlots} THEN EmptyIstart
        ELSE 0]

NoRoll == [log2_size |-> LOG2_ROOT_SIZE, rolling_hash |-> PristineHash(LOG2_WORD_SIZE),
           consumed |-> <<>>]

NoInterp == [pc |-> "none"]

InitReplayObject ==
    /\ m_accesses = <<>>
    /\ m_verify_proofs = FALSE
    /\ m_one_based = FALSE
    /\ m_next_access = 0
    /\ m_root_hash = PristineHash(LOG2_WORD_SIZE)
    /\ m_mock_pmas = <<>>
    /\ m_done = FALSE
    /\ root0 = PristineHash(LOG2_WORD_SIZE)
    /\ req = NoRequest
    /\ err = NoError

Init ==
    /\ phase = "step"
    /\ mem = InitMem
    /\ log_proofs \in BOOLEAN
    /\ log = <<>>
    /\ InitReplayObject
    /\ proof_out = NoProof
    /\ roll = NoRoll
    /\ interp = NoInterp
    /\ InitMachine

\* Locals of the interpreter and of the proof operations, and the machine
\* state the replay never touches
aux_vars == <<proof_out, roll, interp, machine_vars>>

\* The interpreter, taken as a black box, asks for any access at any point.
\* The step being logged reads x1 and x2 and writes x2.
AnyLoggedRead(a) == LoggedRead(a, MaxLog) /\ UNCHANGED aux_vars

AnyLoggedWrite(a, v) == LoggedWrite(a, v, MaxLog) /\ UNCHANGED aux_vars

AnyLoggedFindPma(a) == LoggedFindPma(a, MaxLog) /\ UNCHANGED aux_vars

TamperLog(i, f) == Tamper(i, f) /\ UNCHANGED aux_vars

ConstructReplay(vp, ob) == Construct(vp, ob) /\ UNCHANGED aux_vars

AnyCheckRead(a) == check_read(a) /\ UNCHANGED aux_vars

AnyCheckWrite(a, v) == check_write(a, v) /\ UNCHANGED aux_vars

AnyFindPma(a) == do_find_pma_entry(a) /\ UNCHANGED aux_vars

Finish == finish /\ UNCHANGED aux_vars

Next ==
    \/ \E a \in RegAddrs : AnyLoggedRead(a)
    \/ \E v \in Words : AnyLoggedWrite(X2Addr, v)
    \/ \E a \in PmaTargets : AnyLoggedFindPma(a)
    \/ \E i \in 1..MaxLog, f \in TamperFields : TamperLog(i, f)
    \/ \E vp \in BOOLEAN, ob \in BOOLEAN : ConstructReplay(vp, ob)
    \/ \E a \in RegAddrs : AnyCheckRead(a)
    \/ \E a \in RegAddrs, v \in Words : AnyCheckWrite(a, v)
    \/ \E a \in PmaTargets : AnyFindPma(a)
    \/ Finish

Spec == Init /\ [][Next]_vars

---------------------------------------------------------------------------
(* Replay of PMA lookups over arbitrary descriptors *)

MaxDid == 5         \* device ids 0..MaxDid appear in descriptors

\* Descriptors with every combination of M, IO, E and a DID
IstartSet ==
    {make_istart(0, M, IO, E, DID) :
        M \in {0, 1}, IO \in {0, 1}, E \in {0, 1}, DID \in 0..MaxDid}

\* Slots 0 and 1 hold any descriptor; slot 0 may be the terminating one
\* (ilength 0), be shorter than a word or span the shadow page, slot 1 and
\* every later slot terminate.
PmaMems ==
    {[a \in TouchedAddrs |->
        IF a = PmaIstartAddr(0) THEN i0
        ELSE IF a = PmaIlengthAddr(0) THEN l0
        ELSE IF a = PmaIstartAddr(1) THEN i1
        ELSE IF a \in {PmaIstartAddr(i) : i \in PmaSlots} THEN EmptyIstart
        ELSE 0] :
     i0 \in IstartSet, l0 \in {0, SIZEOF_WORD \div 2, 2 ^ LOG2_PAGE_SIZE},
     i1 \in IstartSet}

InitPma ==
    /\ phase = "step"
    /\ mem \in PmaMems
    /\ log_proofs = FALSE
    /\ log = <<>>
    /\ InitReplayObject
    /\ proof_out = NoProof
    /\ roll = NoRoll
    /\ interp = NoInterp
    /\ InitMachine

PmaLoggedFindPma(a) == LoggedFindPma(a, 2 * MaxPma) /\ UNCHANGED aux_vars

PmaConstructReplay(vp, ob) == Construct(vp, ob) /\ UNCHANGED aux_vars

PmaFindPma(a) == do_find_pma_entry(a) /\ UNCHANGED aux_vars

PmaFinish == finish /\ UNCHANGED aux_vars

NextPma ==
    \/ \E a \in PmaTargets : PmaLoggedFindPma(a)
    \/ \E vp \in BOOLEAN, ob \in BOOLEAN : PmaConstructReplay(vp, ob)
    \/ \E a \in PmaTargets : PmaFindPma(a)
    \/ PmaFinish

SpecPma == InitPma /\ [][NextPma]_vars

---------------------------------------------------------------------------
(* Replay of a log that the caller supplies *)

MaxGiven == 2       \* longest log supplied

\* The state a proof of x1 is taken from: x1 holds word
MemWithX1(word) == [InitMem EXCEPT ![X1Addr] = word]

\* A proof of the word leaf of x1, as the tree gives it
LeafProof(word) == get_proof(MemWithX1(word), X1Addr, LOG2_WORD_SIZE)

\* A proof that names the whole tree as its target: no sibling is hashed
\* and the root it claims is the hash of the word
RootSizeProof(word) ==
    [NoProof EXCEPT !.address = X1Addr, !.log2_size = LOG2_ROOT_SIZE,
                    !.target_hash = get_word_hash(word),
                    !.root_hash = get_word_hash(word)]

GivenProofs(word) == {LeafProof(word), RootSizeProof(word)}

\* The words that are logged and replayed
GivenWords == {0, MaxWord}

\* Entries about x1 whose proof goes with the word they read
GivenEntries ==
    UNION {{[type |-> "read", address |-> X1Addr, read |-> r, written |-> 0,
             proof |-> p] : p \in GivenProofs(r)}
           \cup {[type |-> "write", address |-> X1Addr, read |-> r, written |-> w,
                   proof |-> p] : w \in GivenWords, p \in GivenProofs(r)} : r \in GivenWords}

RECURSIVE GivenLogsOf(_)
GivenLogsOf(n) ==
    IF n = 0 THEN {<<>>}
    ELSE GivenLogsOf(n - 1)
         \cup {Append(l, e) : l \in {k \in GivenLogsOf(n - 1) : Len(k) = n - 1},
                              e \in GivenEntries}

InitGiven ==
    /\ phase = "stepped"
    /\ mem = InitMem
    /\ log_proofs = TRUE
    /\ log \in GivenLogsOf(MaxGiven)
    /\ InitReplayObject
    /\ proof_out = NoProof
    /\ roll = NoRoll
    /\ interp = NoInterp
    /\ InitMachine

GivenConstruct(vp, ob) == Construct(vp, ob) /\ UNCHANGED aux_vars
GivenCheckRead(a) == check_read(a) /\ UNCHANGED aux_vars
GivenCheckWrite(a, v) == check_write(a, v) /\ UNCHANGED aux_vars
GivenFinish == finish /\ UNCHANGED aux_vars

NextGiven ==
    \/ \E vp \in BOOLEAN, ob \in BOOLEAN : GivenConstruct(vp, ob)
    \/ \E a \in {X1Addr, X2Addr} : GivenCheckRead(a)
    \/ \E a \in {X1Addr, X2Addr}, v \in GivenWords : GivenCheckWrite(a, v)
    \/ GivenFinish

SpecGiven == InitGiven /\ [][NextGiven]_vars

---------------------------------------------------------------------------
(* Replay of accesses that read a word, change part of it and write it back *)

ByteWidth == 2      \* bits kept of each of the 8 bytes of a word of memory

\* The values of a byte, and the weight of byte i of a word (least
\* significant first: the host is little-endian)
ScaledByte == 2 ^ ByteWidth
byte_weight(i) == ScaledByte ^ i
byte_of(word, i) == (word \div byte_weight(i)) % ScaledByte

\* aliased_aligned_write<T>(pval64 + poffset, val), size = sizeof(T): the
\* bytes of val take the place of the bytes poffset.. of val64
RECURSIVE aliased_aligned_write(_, _, _, _)
aliased_aligned_write(val64, poffset, size, val) ==
    IF size = 0 THEN val64
    ELSE LET rest == aliased_aligned_write(val64, poffset + 1, size - 1, val \div ScaledByte)
         IN  rest - byte_of(rest, poffset) * byte_weight(poffset)
                  + (val % ScaledByte) * byte_weight(poffset)

IFLAGS_H_MASK == 2 ^ IFLAGS_H_SHIFT
IFLAGS_Y_MASK == 2 ^ IFLAGS_Y_SHIFT
IFLAGS_I_MASK == 2 ^ IFLAGS_I_SHIFT
IFLAGS_PRV_MASK == 3 * 2 ^ IFLAGS_PRV_SHIFT

IflagsAddr == PMA_SHADOW_START + shadow_get_csr_rel_addr(shadow_csr("iflags"))

\* The word a call writes back, from the word old that it read
updated_word(update, old) ==
    IF update.kind = "or" THEN BitOr(old, update.mask)
    ELSE IF update.kind = "and_not" THEN BitClear(old, update.mask)
    ELSE IF update.kind = "field"
    THEN BitOr(BitClear(old, update.mask), BitAnd(update.val, update.mask))
    ELSE aliased_aligned_write(old, update.poffset, update.size, update.val)

\* auto old = check_read(paligned, ...); check_write(paligned, new, ...):
\* an exception of check_read leaves check_write undone
read_then_write(paligned, update) ==
    /\ phase = "replay"
    /\ LET e1 == check_read_error(m_next_access, paligned)
       IN IF e1 # NoError
          THEN /\ err' = e1
               /\ phase' = "failed"
               /\ m_next_access' = m_next_access
               /\ m_root_hash' = m_root_hash
               /\ req' = [op |-> "read", paligned |-> paligned, val |-> 0,
                          ret |-> 0, n |-> m_next_access]
          ELSE LET old == m_accesses[m_next_access + 1].read
                   new == updated_word(update, old)
                   e2 == check_write_error(m_next_access + 1, paligned, new)
               IN /\ err' = e2
                  /\ req' = [op |-> "write", paligned |-> paligned, val |-> new,
                             ret |-> old, n |-> m_next_access + 1]
                  /\ IF e2 = NoError
                     THEN /\ m_next_access' = m_next_access + 2
                          /\ phase' = phase
                          /\ m_root_hash' =
                                IF m_verify_proofs
                                THEN root_after_write(m_accesses[m_next_access + 2])
                                ELSE m_root_hash
                     ELSE /\ m_next_access' = m_next_access + 1
                          /\ phase' = "failed"
                          /\ m_root_hash' = m_root_hash
    /\ UNCHANGED <<mem, log_proofs, log, m_accesses, m_verify_proofs, m_one_based,
                   m_mock_pmas, m_done, root0>>

do_set_iflags_H == read_then_write(IflagsAddr, [kind |-> "or", mask |-> IFLAGS_H_MASK])

do_set_iflags_Y == read_then_write(IflagsAddr, [kind |-> "or", mask |-> IFLAGS_Y_MASK])

\* new_iflags = old_iflags & IFLAGS_Y_MASK
do_reset_iflags_Y_keeps_only_Y ==
    read_then_write(IflagsAddr, [kind |-> "field", mask |-> IFLAGS_Y_MASK,
                                 val |-> IFLAGS_Y_MASK])

do_reset_iflags_Y ==
    read_then_write(IflagsAddr, [kind |-> "and_not", mask |-> IFLAGS_Y_MASK])

do_set_iflags_I == read_then_write(IflagsAddr, [kind |-> "or", mask |-> IFLAGS_I_MASK])

do_reset_iflags_I ==
    read_then_write(IflagsAddr, [kind |-> "and_not", mask |-> IFLAGS_I_MASK])

\* val is a uint8_t
do_write_iflags_PRV(val) ==
    read_then_write(IflagsAddr, [kind |-> "field", mask |-> IFLAGS_PRV_MASK,
                                 val |-> val * 2 ^ IFLAGS_PRV_SHIFT])

\* do_write_memory that puts val at the start of the word
do_write_memory_at_offset_0(paddr, size, val) ==
    /\ paddr % size = 0
    /\ IF size < SIZEOF_WORD
       THEN read_then_write(paddr - (paddr % SIZEOF_WORD),
                            [kind |-> "bytes", poffset |-> 0, size |-> size, val |-> val])
       ELSE check_write(paddr, val)

\* do_write_memory<T>(paddr, hpage, hoffset, val), size = sizeof(T); its
\* callers pass addresses aligned to the size (the assert of line 705)
do_write_memory(paddr, size, val) ==
    /\ paddr % size = 0
    /\ IF size < SIZEOF_WORD
       THEN read_then_write(paddr - (paddr % SIZEOF_WORD),
                            [kind |-> "bytes", poffset |-> paddr % SIZEOF_WORD,
                             size |-> size, val |-> val])
       ELSE check_write(paddr, val)

\* ---- The logs supplied and the calls made

\* An aligned word of memory
RamWordAddr == 2 ^ 13
\* The widths of an access, sizeof(T)
AccessSizes == {1, 2, 4, SIZEOF_WORD}

\* A word from its byte, the same at every place
word_of_byte(b) == b * ((byte_weight(SIZEOF_WORD) - 1) \div (ScaledByte - 1))

\* The proof of the word at address in a tree that is pristine elsewhere
OnlyWordProof(address, word) ==
    LET siblings == [NoProof EXCEPT !.address = address,
                         !.target_hash = get_word_hash(word),
                         !.sibling_hashes = [i \in SiblingIndices |-> PristineHash(63 - i)]]
    IN  [siblings EXCEPT !.root_hash = roll_hash_up_tree(siblings, get_word_hash(word))]

\* Values of iflags before an update: PRV 1 and Y; PRV 2, I and H under
\* bits beyond the fields
IflagsOlds == {packed_iflags(1, 0, 1, 0), 2 ^ 20 + packed_iflags(2, 1, 0, 1)}
\* Words of memory before a write
RamOlds == {0, word_of_byte(2)}
\* The values written, as wide as the access at most
WriteVals(size) == {1, byte_weight(size) - 1}

\* The calls that are made
IflagsUpdates ==
    {[kind |-> "or", mask |-> k] : k \in {IFLAGS_H_MASK, IFLAGS_Y_MASK, IFLAGS_I_MASK}}
    \cup {[kind |-> "and_not", mask |-> k] : k \in {IFLAGS_Y_MASK, IFLAGS_I_MASK}}
    \cup {[kind |-> "field", mask |-> IFLAGS_PRV_MASK, val |-> 2 * 2 ^ IFLAGS_PRV_SHIFT]}
RamUpdates ==
    {[kind |-> "bytes", poffset |-> 2, size |-> 2, val |-> 1],
     [kind |-> "bytes", poffset |-> 4, size |-> 4, val |-> byte_weight(4) - 1]}

UpdateEntriesAt(address, olds, updates) ==
    UNION {{[type |-> "read", address |-> address, read |-> o, written |-> 0,
             proof |-> OnlyWordProof(address, o)]}
           \cup {[type |-> "write", address |-> address, read |-> o,
                   written |-> updated_word(u, o),
                   proof |-> OnlyWordProof(address, o)] : u \in updates} : o \in olds}

UpdateEntries ==
    UpdateEntriesAt(IflagsAddr, IflagsOlds, IflagsUpdates)
    \cup UpdateEntriesAt(RamWordAddr, RamOlds, RamUpdates)

\* The logs supplied: as many entries as one of these calls consumes, or fewer
UpdateLogs ==
    {<<>>} \cup {<<e>> : e \in UpdateEntries}
           \cup {<<e1, e2>> : e1 \in UpdateEntries, e2 \in UpdateEntries}

InitUpdate ==
    /\ phase = "stepped"
    /\ mem = InitMem
    /\ log_proofs = TRUE
    /\ log \in UpdateLogs
    /\ InitReplayObject
    /\ proof_out = NoProof
    /\ roll = NoRoll
    /\ interp = NoInterp
    /\ InitMachine

UpdateConstruct(vp) == Construct(vp, FALSE) /\ UNCHANGED aux_vars
UpdateSetH == do_set_iflags_H /\ UNCHANGED aux_vars
UpdateSetY == do_set_iflags_Y /\ UNCHANGED aux_vars
UpdateResetY == do_reset_iflags_Y /\ UNCHANGED aux_vars
UpdateSetI == do_set_iflags_I /\ UNCHANGED aux_vars
UpdateResetI == do_reset_iflags_I /\ UNCHANGED aux_vars
UpdateWritePRV(v) == do_write_iflags_PRV(v) /\ UNCHANGED aux_vars
UpdateWriteMemory(paddr, size, val) == do_write_memory(paddr, size, val) /\ UNCHANGED aux_vars
UpdateFinish == finish /\ UNCHANGED aux_vars

\* The values of a uint8_t that write_iflags_PRV is given
PrvVals == {0, 2, 5}

NextUpdate ==
    \/ \E vp \in BOOLEAN : UpdateConstruct(vp)
    \/ UpdateSetH
    \/ UpdateSetY
    \/ UpdateResetY
    \/ UpdateSetI
    \/ UpdateResetI
    \/ \E v \in PrvVals : UpdateWritePRV(v)
    \/ \E off \in 0..(SIZEOF_WORD - 1), size \in AccessSizes :
          \E val \in WriteVals(size) : UpdateWriteMemory(RamWordAddr + off, size, val)
    \/ UpdateFinish

SpecUpdate == InitUpdate /\ [][NextUpdate]_vars

---------------------------------------------------------------------------
(* Proofs of the Merkle tree and their verification *)

\* Targets of get_proof
ProofAddrs == TouchedAddrs \cup {0, 24, 2 ^ LOG2_PAGE_SIZE, 2 ^ 13, 2 ^ 20}
ProofSizes == LOG2_WORD_SIZE..LOG2_ROOT_SIZE

IsAligned(address, log2_size) ==
    IF log2_size >= 31 THEN address = 0 ELSE address % (2 ^ log2_size) = 0

InitProof ==
    /\ phase = "tree"
    /\ mem = InitMem
    /\ log_proofs = TRUE
    /\ log = <<>>
    /\ InitReplayObject
    /\ proof_out = NoProof
    /\ roll = NoRoll
    /\ interp = NoInterp
    /\ InitMachine

\* A register of the machine changes and the tree is brought up to date.
UpdateWord(a, v) ==
    /\ phase = "tree"
    /\ mem[a] # v
    /\ mem' = [mem EXCEPT ![a] = v]
    /\ UNCHANGED <<phase, log_proofs, log, replay_vars, aux_vars>>

GetProof(address, log2_size) ==
    /\ phase = "tree"
    /\ IsAligned(address, log2_size)
    /\ proof_out' = get_proof(mem, address, log2_size)
    /\ roll' = [log2_size |-> log2_size,
                rolling_hash |-> NodeHash(mem, address, log2_size),
                consumed |-> <<>>]
    /\ phase' = IF log2_size < LOG2_ROOT_SIZE THEN "rolling" ELSE "rolled"
    /\ UNCHANGED <<mem, log_proofs, log, replay_vars, interp, machine_vars>>

\* One iteration of the loop of roll_hash_up_tree over proof_out
RollIteration ==
    /\ phase = "rolling"
    /\ roll' = [log2_size |-> roll.log2_size + 1,
                rolling_hash |-> roll_step(proof_out, roll.log2_size, roll.rolling_hash),
                consumed |-> Append(roll.consumed, sibling_index(roll.log2_size))]
    /\ phase' = IF roll.log2_size + 1 < LOG2_ROOT_SIZE THEN "rolling" ELSE "rolled"
    /\ UNCHANGED <<mem, log_proofs, log, replay_vars, proof_out, interp, machine_vars>>

NextProof ==
    \/ \E a \in RegAddrs, v \in Words : UpdateWord(a, v)
    \/ \E a \in ProofAddrs, l \in ProofSizes : GetProof(a, l)
    \/ RollIteration

SpecProof == InitProof /\ [][NextProof]_vars

---------------------------------------------------------------------------
(* One step of the machine, logged, against machine_run and the replay *)

\* machine_state::is_done
machine_state_is_done(mcycle, mcycle_end) == mcycle >= mcycle_end

\* The instruction executed: x2 := x1 + x2, then mcycle := mcycle + 1.
alu(a, b) == (a + b) % (MaxWord + 1)
next_mcycle(c) == (c + 1) % CycleModulus

\* One instruction on the machine state itself (the fast backend)
execute(m) ==
    LET m1 == [m EXCEPT ![X2Addr] = alu(m[X1Addr], m[X2Addr])]
    IN [m1 EXCEPT ![McycleAddr] = next_mcycle(m1[McycleAddr])]

\* interpret over the fast backend
RECURSIVE interpret(_, _)
interpret(m, mcycle_end) ==
    IF machine_state_is_done(m[McycleAddr], mcycle_end) THEN m
    ELSE interpret(execute(m), mcycle_end)

machine_run(m, mcycle_end) == interpret(m, mcycle_end)

StepMems ==
    {[a \in TouchedAddrs |->
        IF a = X1Addr THEN x1
        ELSE IF a = X2Addr THEN x2
        ELSE IF a = McycleAddr THEN c
        ELSE InitMem[a]] :
     x1 \in Words, x2 \in Words, c \in 0..(CycleModulus - 1)}

InitStep ==
    /\ phase = "step"
    /\ mem \in StepMems
    /\ log_proofs \in BOOLEAN
    /\ log = <<>>
    /\ InitReplayObject
    /\ proof_out = NoProof
    /\ roll = NoRoll
    /\ interp = [pc |-> "start", a |-> 0, b |-> 0, c |-> 0, s0 |-> mem,
                 mcycle_end |-> 0, tree_root |-> get_root_hash_of(mem)]
    /\ InitMachine

\* machine_step: interpret(a, mcycle + 1) over the logged backend
MachineStepBegin ==
    /\ phase = "step"
    /\ interp.pc = "start"
    /\ interp' = [interp EXCEPT !.pc = "is_done",
                                !.mcycle_end = next_mcycle(mem[McycleAddr])]
    /\ UNCHANGED <<phase, mem, log_proofs, log, replay_vars, proof_out, roll, machine_vars>>

\* The loop test of interpret on the machine state; machine_step returns
\* when it holds.
StepIsDone ==
    /\ phase = "step"
    /\ interp.pc = "is_done"
    /\ IF machine_state_is_done(mem[McycleAddr], interp.mcycle_end)
       THEN /\ phase' = "stepped"
            /\ interp' = [interp EXCEPT !.pc = "returned"]
       ELSE /\ phase' = phase
            /\ interp' = [interp EXCEPT !.pc = "read_x1"]
    /\ UNCHANGED <<mem, log_proofs, log, replay_vars, proof_out, roll, machine_vars>>

StepReadX1 ==
    /\ interp.pc = "read_x1"
    /\ LoggedRead(X1Addr, Len(log) + 1)
    /\ interp' = [interp EXCEPT !.pc = "read_x2", !.a = mem[X1Addr]]
    /\ UNCHANGED <<proof_out, roll, machine_vars>>

StepReadX2 ==
    /\ interp.pc = "read_x2"
    /\ LoggedRead(X2Addr, Len(log) + 1)
    /\ interp' = [interp EXCEPT !.pc = "write_x2", !.b = mem[X2Addr]]
    /\ UNCHANGED <<proof_out, roll, machine_vars>>

\* The tree's root after the logged backend wrote val at paligned: the hash
\* of the new word rolled up the siblings of the word's proof.
tree_root_after_write(m, paligned, val) ==
    roll_hash_up_tree(get_proof(m, paligned, LOG2_WORD_SIZE), get_word_hash(val))

StepWriteX2 ==
    /\ interp.pc = "write_x2"
    /\ LoggedWrite(X2Addr, alu(interp.a, interp.b), Len(log) + 1)
    /\ interp' = [interp EXCEPT
                    !.pc = "read_mcycle",
                    !.tree_root = tree_root_after_write(mem, X2Addr,
                                                        alu(interp.a, interp.b))]
    /\ UNCHANGED <<proof_out, roll, machine_vars>>

StepReadMcycle ==
    /\ interp.pc = "read_mcycle"
    /\ LoggedRead(McycleAddr, Len(log) + 1)
    /\ interp' = [interp EXCEPT !.pc = "write_mcycle", !.c = mem[McycleAddr]]
    /\ UNCHANGED <<proof_out, roll, machine_vars>>

StepWriteMcycle ==
    /\ interp.pc = "write_mcycle"
    /\ LoggedWrite(McycleAddr, next_mcycle(interp.c), Len(log) + 1)
    /\ interp' = [interp EXCEPT
                    !.pc = "is_done",
                    !.tree_root = tree_root_after_write(mem, McycleAddr,
                                                        next_mcycle(interp.c))]
    /\ UNCHANGED <<proof_out, roll, machine_vars>>

\* The log is handed to a step_state_access and interpret runs over it.
StepConstructReplay(vp, ob) ==
    /\ phase = "stepped"
    /\ Construct(vp, ob)
    /\ interp' = [interp EXCEPT !.pc = "is_done"]
    /\ UNCHANGED <<proof_out, roll, machine_vars>>

\* mock_machine_state::is_done: the value it hands back
mock_is_done(done) == done

\* The loop test of interpret on the mock state
ReplayIsDone ==
    /\ phase = "replay"
    /\ interp.pc = "is_done"
    /\ m_done' = TRUE
    /\ interp' = [interp EXCEPT
                    !.pc = IF mock_is_done(m_done) THEN "finish" ELSE "read_x1"]
    /\ UNCHANGED <<phase, mem, log_proofs, log, m_accesses, m_verify_proofs,
                   m_one_based, m_next_access, m_root_hash, m_mock_pmas, root0,
                   req, err, proof_out, roll, machine_vars>>

ReplayReadX1 ==
    /\ interp.pc = "read_x1"
    /\ check_read(X1Addr)
    /\ interp' = [interp EXCEPT !.pc = "read_x2", !.a = req'.ret]
    /\ UNCHANGED <<proof_out, roll, machine_vars>>

ReplayReadX2 ==
    /\ interp.pc = "read_x2"
    /\ check_read(X2Addr)
    /\ interp' = [interp EXCEPT !.pc = "write_x2", !.b = req'.ret]
    /\ UNCHANGED <<proof_out, roll, machine_vars>>

ReplayWriteX2 ==
    /\ interp.pc = "write_x2"
    /\ check_write(X2Addr, alu(interp.a, interp.b))
    /\ interp' = [interp EXCEPT !.pc = "read_mcycle"]
    /\ UNCHANGED <<proof_out, roll, machine_vars>>

ReplayReadMcycle ==
    /\ interp.pc = "read_mcycle"
    /\ check_read(McycleAddr)
    /\ interp' = [interp EXCEPT !.pc = "write_mcycle", !.c = req'.ret]
    /\ UNCHANGED <<proof_out, roll, machine_vars>>

ReplayWriteMcycle ==
    /\ interp.pc = "write_mcycle"
    /\ check_write(McycleAddr, next_mcycle(interp.c))
    /\ interp' = [interp EXCEPT !.pc = "is_done"]
    /\ UNCHANGED <<proof_out, roll, machine_vars>>

ReplayFinish ==
    /\ interp.pc = "finish"
    /\ finish
    /\ UNCHANGED aux_vars

NextStep ==
    \/ MachineStepBegin
    \/ StepIsDone
    \/ StepReadX1
    \/ StepReadX2
    \/ StepWriteX2
    \/ StepReadMcycle
    \/ StepWriteMcycle
    \/ \E vp \in BOOLEAN, ob \in BOOLEAN : StepConstructReplay(vp, ob)
    \/ ReplayIsDone
    \/ ReplayReadX1
    \/ ReplayReadX2
    \/ ReplayWriteX2
    \/ ReplayReadMcycle
    \/ ReplayWriteMcycle
    \/ ReplayFinish

SpecStep == InitStep /\ [][NextStep]_vars

---------------------------------------------------------------------------
(* The break flag under every order of changes and updates *)

base_vars == <<mem, log_proofs, log, replay_vars, proof_out, roll, interp, host_vars>>

other_vars == <<phase, base_vars, virt_vars>>

InitBrk ==
    /\ phase = "machine"
    /\ mem = InitMem
    /\ log_proofs = FALSE
    /\ log = <<>>
    /\ InitReplayObject
    /\ proof_out = NoProof
    /\ roll = NoRoll
    /\ interp = NoInterp
    /\ InitMachine

BrkSetBrk == set_brk /\ UNCHANGED <<other_vars, shadow_vars>>
BrkOrMipMie == or_brk_with_mip_mie /\ UNCHANGED <<other_vars, shadow_vars>>
BrkOrIflagsH == or_brk_with_iflags_H /\ UNCHANGED <<other_vars, shadow_vars>>
BrkOrIflagsY == or_brk_with_iflags_Y /\ UNCHANGED <<other_vars, shadow_vars>>
BrkSetFromAll == set_brk_from_all /\ UNCHANGED <<other_vars, shadow_vars>>
BrkWriteMie(val) == machine_write_mie(val) /\ UNCHANGED <<other_vars, shadow_vars>>
BrkSetMip(mask) == machine_set_mip(mask) /\ UNCHANGED <<other_vars, shadow_vars>>
BrkResetMip(mask) == machine_reset_mip(mask) /\ UNCHANGED <<other_vars, shadow_vars>>
BrkSetIflagsH == machine_set_iflags_H /\ UNCHANGED <<other_vars, shadow_vars>>

NextBrk ==
    \/ BrkSetBrk
    \/ BrkOrMipMie
    \/ BrkOrIflagsH
    \/ BrkOrIflagsY
    \/ BrkSetFromAll
    \/ \E val \in IrqMasks : BrkWriteMie(val)
    \/ \E mask \in IrqMasks : BrkSetMip(mask)
    \/ \E mask \in IrqMasks : BrkResetMip(mask)
    \/ BrkSetIflagsH

SpecBrk == InitBrk /\ [][NextBrk]_vars

---------------------------------------------------------------------------
(* The shadow page of every machine state *)

frame_vars == <<base_vars, virt_vars>>

InitShadow ==
    /\ phase = "machine"
    /\ mem = InitMem
    /\ log_proofs = FALSE
    /\ log = <<>>
    /\ InitReplayObject
    /\ proof_out = NoProof
    /\ roll = NoRoll
    /\ interp = NoInterp
    /\ InitHost
    /\ InitState
    /\ InitShadowState(StaleBuffer)
    /\ InitVirt

\* Zero and the largest word
ShadowWords == {0, MaxWord}

PeekOffsets == {0, PMA_PAGE_SIZE}

\* No interrupt, and all of them
ShadowIrqs == {0, 2 ^ IrqBits - 1}

ShadowWriteRegister(i, val) ==
    machine_write_register(i, val) /\ UNCHANGED <<phase, frame_vars, state_vars>>
ShadowWriteCsr(name, val) ==
    machine_write_csr(name, val) /\ UNCHANGED <<phase, frame_vars, state_vars>>
ShadowWriteMie(val) ==
    /\ phase = "machine"
    /\ MaySet(val)
    /\ machine_write_mie(val)
    /\ UNCHANGED <<phase, frame_vars, shadow_vars>>
ShadowSetMip(mask) ==
    /\ phase = "machine"
    /\ MaySet(BitOr(mip, mask))
    /\ machine_set_mip(mask)
    /\ UNCHANGED <<phase, frame_vars, shadow_vars>>
ShadowSetIflagsH ==
    /\ phase = "machine"
    /\ machine_set_iflags_H
    /\ UNCHANGED <<phase, frame_vars, shadow_vars>>
ShadowRegisterPma(istart, ilength) ==
    machine_register_pma(istart, ilength) /\ UNCHANGED <<phase, frame_vars, state_vars>>
ShadowPeek(page_offset) ==
    shadow_peek(page_offset) /\ UNCHANGED <<frame_vars, state_vars>>

NextShadow ==
    \/ \E i \in RegIndices, val \in ShadowWords : ShadowWriteRegister(i, val)
    \/ \E name \in PlainCsrs, val \in ShadowWords : ShadowWriteCsr(name, val)
    \/ \E val \in ShadowIrqs : ShadowWriteMie(val)
    \/ \E mask \in ShadowIrqs : ShadowSetMip(mask)
    \/ ShadowSetIflagsH
    \/ \E istart \in PmaStarts : ShadowRegisterPma(istart, PMA_PAGE_SIZE)
    \/ \E page_offset \in PeekOffsets : ShadowPeek(page_offset)

SpecShadow == InitShadow /\ [][NextShadow]_vars

---------------------------------------------------------------------------
(* Guest writes to the HTIF registers *)

HalfOf(low, cmd, dev) ==
    [i \in HalfIndices |-> IF i = 4 THEN dev ELSE IF i = 3 THEN cmd
                           ELSE IF i = 1 THEN low ELSE 0]

\* Halves that hold each command the HTIF tells apart, one it does not
\* support, and the payloads 0 and 1
HtifCommands == {<<HTIF_DEVICE_HALT, 0>>, <<HTIF_DEVICE_CONSOLE, HTIF_CMD_PUTCHAR>>,
                 <<HTIF_DEVICE_CONSOLE, HTIF_CMD_GETCHAR>>, <<HTIF_DEVICE_YIELD, 0>>}
HtifVals == {HalfOf(low, c[2], c[1]) : low \in {0, 1}, c \in HtifCommands}
FromhostVals == {HalfOf(low, 0, 0) : low \in {0, 1}}
HtifOffsets == {0, 4, 8, 12, 16}

InitHtif ==
    /\ phase = "machine"
    /\ mem = InitMem
    /\ log_proofs = FALSE
    /\ log = <<>>
    /\ InitReplayObject
    /\ proof_out = NoProof
    /\ roll = NoRoll
    /\ interp = NoInterp
    /\ InitHost
    /\ InitState
    /\ InitShadowState(NoBuffer)
    /\ timecmp = ZeroWord
    /\ shuthost = FALSE
    /\ power_down = FALSE
    /\ cpu_mcycle = 0
    /\ con \in {NoConsole, Console}
    /\ dev_req = NoDevReq
    /\ run = NoRun

HtifWriteTohost(offset, val) ==
    /\ offset \in {0, 4}
    /\ htif_write(offset, val)
    /\ UNCHANGED <<phase, base_vars, shadow_vars>>

HtifWriteFromhost(offset, val) ==
    /\ offset \notin {0, 4}
    /\ htif_write(offset, val)
    /\ UNCHANGED <<phase, base_vars, shadow_vars>>

NextHtif ==
    \/ \E offset \in HtifOffsets, val \in HtifVals : HtifWriteTohost(offset, val)
    \/ \E offset \in HtifOffsets, val \in FromhostVals : HtifWriteFromhost(offset, val)

SpecHtif == InitHtif /\ [][NextHtif]_vars

---------------------------------------------------------------------------
(* Guest writes to the CLINT registers and interrupts being raised *)

ClintVals == {HalfOf(low, 0, dev) : low \in {0, 1}, dev \in {0, 1}}
ClintOffsets == {0, CLINT_MTIMECMP, CLINT_MTIMECMP + BYTES_PER_HALF, 49144}

InitClint ==
    /\ phase = "machine"
    /\ mem = InitMem
    /\ log_proofs = FALSE
    /\ log = <<>>
    /\ InitReplayObject
    /\ proof_out = NoProof
    /\ roll = NoRoll
    /\ interp = NoInterp
    /\ InitHost
    /\ InitState
    /\ InitShadowState(NoBuffer)
    /\ InitVirt

ClintWrite(offset, val) ==
    clint_write(offset, val) /\ UNCHANGED <<phase, base_vars, shadow_vars>>

ClintSetMip(mask) ==
    riscv_cpu_set_mip(mask) /\ UNCHANGED <<phase, base_vars, shadow_vars>>

NextClint ==
    \/ \E offset \in ClintOffsets, val \in ClintVals : ClintWrite(offset, val)
    \/ \E mask \in {MIP_MTIP, MIP_MSIP} : ClintSetMip(mask)

SpecClint == InitClint /\ [][NextClint]_vars

---------------------------------------------------------------------------
(* One call of virt_machine_run from any state of the machine *)

StartCycles == {0, RTC_FREQ_DIV - 1, TimeModulus - 1}
\* The last value is the smallest time whose cycle count overflows
TimecmpValues == {0, 1, TimeModulus \div RTC_FREQ_DIV + 1}
EndCycles == {RTC_FREQ_DIV \div 2, TimeModulus - 1}

InitRun ==
    /\ phase = "machine"
    /\ mem = InitMem
    /\ log_proofs = FALSE
    /\ log = <<>>
    /\ InitReplayObject
    /\ proof_out = NoProof
    /\ roll = NoRoll
    /\ interp = NoInterp
    /\ InitHost
    /\ InitShadowState(NoBuffer)
    /\ mie \in {0, MIP_MTIP}
    /\ mip \in {0, MIP_MTIP}
    /\ brk = FALSE
    /\ iflags = [PRV |-> 3, I |-> FALSE, Y |-> FALSE, H |-> FALSE]
    /\ htif = [tohost |-> ZeroWord, fromhost |-> ZeroWord, iyield |-> ZeroWord]
    /\ caller = "idle"
    /\ timecmp \in TimecmpValues
    /\ shuthost = FALSE
    /\ power_down \in BOOLEAN
    /\ cpu_mcycle \in StartCycles
    /\ con \in {NoConsole, Console}
    /\ dev_req = NoDevReq
    /\ run = NoRun

RunCall(cycles_end) ==
    virt_machine_run_call(cycles_end) /\ UNCHANGED <<phase, base_vars, shadow_vars>>

RunCpu == virt_machine_run_cpu /\ UNCHANGED <<phase, base_vars, shadow_vars>>

RunCheck(input) ==
    virt_machine_run_check(input) /\ UNCHANGED <<phase, base_vars, shadow_vars>>

NextRun ==
    \/ \E cycles_end \in EndCycles : RunCall(cycles_end)
    \/ RunCpu
    \/ \E input \in BOOLEAN : RunCheck(input)

SpecRun == InitRun /\ [][NextRun]_vars

\* The loop runs on as long as the call has not returned.
SpecRunFair ==
    SpecRun /\ WF_vars(RunCpu) /\ WF_vars(\E input \in BOOLEAN : RunCheck(input))

---------------------------------------------------------------------------
(* The console: characters of stdin fed to the guest through fromhost *)

\* Bytes that stdin delivers
ConsoleChars == {97, 200}
\* What read() stores: the same byte throughout, or two different ones
ConsoleData ==
    {[i \in BufIndices |-> ch] : ch \in ConsoleChars}
    \cup {[i \in BufIndices |-> IF i = 1 THEN 97 ELSE 200]}
\* What read() returns: an error, the end of the file, or a count of bytes
ReadResults == (0 - 1)..ConsoleBufSize

\* The end of the run: two rounds of the loop reach the console
ConsoleCyclesEnd == RTC_FREQ_DIV + 2

\* The halves the guest writes to fromhost
AckVals == {ZeroHalf, HalfOf(1, 0, 0)}

InitConsole ==
    /\ phase = "machine"
    /\ mem = InitMem
    /\ log_proofs = FALSE
    /\ log = <<>>
    /\ InitReplayObject
    /\ proof_out = NoProof
    /\ roll = NoRoll
    /\ interp = NoInterp
    /\ InitHost
    /\ InitShadowState(NoBuffer)
    /\ mie = 0
    /\ mip = 0
    /\ brk = FALSE
    /\ iflags = [PRV |-> 3, I |-> FALSE, Y |-> FALSE, H |-> FALSE]
    /\ htif = [tohost |-> ZeroWord, fromhost |-> ZeroWord, iyield |-> ZeroWord]
    /\ caller = "idle"
    /\ timecmp = 1
    /\ shuthost = FALSE
    /\ power_down = FALSE
    /\ cpu_mcycle = 0
    /\ con = BufferedConsole
    /\ dev_req = NoDevReq
    /\ run = NoRun

ConsoleRunCall(cycles_end) ==
    virt_machine_run_call(cycles_end) /\ UNCHANGED <<phase, base_vars, shadow_vars>>

ConsoleRunCpu == virt_machine_run_cpu /\ UNCHANGED <<phase, base_vars, shadow_vars>>

ConsoleRunCheck(ready, nread, data) ==
    /\ virt_machine_run_check_console(ready, nread, data)
    /\ UNCHANGED <<phase, base_vars, shadow_vars>>

\* A store of the guest to the HTIF, executed inside riscv_cpu_run
ConsoleGuestWrite(offset, val) ==
    /\ run.pc = "cpu"
    /\ ~power_down
    /\ ~shuthost
    /\ htif_write(offset, val)
    /\ UNCHANGED <<phase, base_vars, shadow_vars>>

NextConsole ==
    \/ ConsoleRunCall(ConsoleCyclesEnd)
    \/ ConsoleRunCpu
    \/ \E ready \in BOOLEAN, nread \in ReadResults, data \in ConsoleData :
          ConsoleRunCheck(ready, nread, data)
    \/ \E offset \in {4, 8, 12}, val \in AckVals : ConsoleGuestWrite(offset, val)

SpecConsole == InitConsole /\ [][NextConsole]_vars

---------------------------------------------------------------------------
(* Yield commands written to the HTIF *)

YieldVals == {HalfOf(0, cmd, dev) : dev \in HtifDevices, cmd \in HtifCmds}

InitYield ==
    /\ phase = "machine"
    /\ mem = InitMem
    /\ log_proofs = FALSE
    /\ log = <<>>
    /\ InitReplayObject
    /\ proof_out = NoProof
    /\ roll = NoRoll
    /\ interp = NoInterp
    /\ InitHost
    /\ InitShadowState(NoBuffer)
    /\ InitVirt
    /\ mie = 0
    /\ mip = 0
    /\ brk = FALSE
    /\ iflags = [PRV |-> 3, I |-> FALSE, Y |-> FALSE, H |-> FALSE]
    /\ htif \in {[tohost |-> ZeroWord, fromhost |-> ZeroWord, iyield |-> w] :
                    w \in IyieldWords}
    /\ caller = "idle"

\* A step of the machine state that is no write to a device
YieldFrame ==
    /\ dev_req' = NoDevReq
    /\ UNCHANGED <<timecmp, shuthost, power_down, cpu_mcycle, con, run>>
    /\ UNCHANGED <<phase, base_vars, shadow_vars>>

YieldWriteTohost(offset, val) ==
    /\ htif_write(offset, val)
    /\ UNCHANGED <<phase, base_vars, shadow_vars>>

YieldWriteIflagsY(y) == machine_write_iflags_Y(y) /\ YieldFrame
YieldOrBrk == or_brk_with_iflags_Y /\ YieldFrame
YieldSetBrkFromAll == set_brk_from_all /\ YieldFrame

NextYield ==
    \/ \E val \in YieldVals : YieldWriteTohost(BYTES_PER_HALF, val)
    \/ YieldWriteTohost(0, ZeroHalf)
    \/ \E y \in BOOLEAN : YieldWriteIflagsY(y)
    \/ YieldOrBrk
    \/ YieldSetBrkFromAll

SpecYield == InitYield /\ [][NextYield]_vars

---------------------------------------------------------------------------
(* Registrations and lookups on one memory map *)


\* The last page of the address space
TopPage == AddrModulus - DEVRAM_PAGE_SIZE

IomemAddrs == {0, HTIF_SIZE, TopPage}
IomemSizes == {HTIF_SIZE, DEVRAM_PAGE_SIZE}
IomemPaddrs == {0, HTIF_SIZE, DEVRAM_PAGE_SIZE, TopPage, AddrModulus - 1}
HostOutcomes == {"ok", "open_fails", "mmap_fails"}

non_host_vars ==
    <<phase, mem, log_proofs, log, replay_vars, proof_out, roll, interp,
      state_vars, shadow_vars, virt_vars>>

InitIomem ==
    /\ phase = "machine"
    /\ mem = InitMem
    /\ log_proofs = FALSE
    /\ log = <<>>
    /\ InitReplayObject
    /\ proof_out = NoProof
    /\ roll = NoRoll
    /\ interp = NoInterp
    /\ InitState
    /\ InitShadowState(NoBuffer)
    /\ InitVirt
    /\ mem_map = EmptyMap
    /\ host_req = NoHostReq
    /\ boot = NoBoot

IomemRegisterRam(addr, size) ==
    cpu_register_ram(addr, size, FALSE) /\ UNCHANGED non_host_vars

IomemRegisterBackedRam(addr, size, host) ==
    cpu_register_backed_ram(addr, size, FALSE, host) /\ UNCHANGED non_host_vars

IomemRegisterDevice(addr, size, disabled) ==
    cpu_register_device(addr, size, disabled) /\ UNCHANGED non_host_vars

IomemGetRange(paddr) == get_phys_mem_range(paddr) /\ UNCHANGED non_host_vars

NextIomem ==
    \/ \E addr \in IomemAddrs, size \in IomemSizes : IomemRegisterRam(addr, size)
    \/ \E addr \in IomemAddrs, size \in IomemSizes, host \in HostOutcomes :
          IomemRegisterBackedRam(addr, size, host)
    \/ \E addr \in IomemAddrs, size \in IomemSizes, disabled \in BOOLEAN :
          IomemRegisterDevice(addr, size, disabled)
    \/ \E paddr \in IomemPaddrs : IomemGetRange(paddr)

SpecIomem == InitIomem /\ [][NextIomem]_vars

---------------------------------------------------------------------------
(* The dirty bits of a RAM range (iomem.c) *)

\* A bitmap of n words of 32 bits with no bit set; a word is kept as the
\* set of the positions of its bits that are set
ZeroBitmap(n) == [w \in 1..n |-> {}]

\* init_dirty_bits: the range with its two bitmaps, both zeroed by mallocz
init_dirty_bits(pr, size) ==
    LET nb_pages == size \div DEVRAM_PAGE_SIZE
        dirty_bits_size == ((nb_pages + 31) \div UINT32_BITS) * SIZEOF_UINT32
    IN  pr @@ [dirty_bits_size |-> dirty_bits_size,
               dirty_bits_index |-> 0,
               dirty_bits_tab |-> [i \in {0, 1} |->
                                     ZeroBitmap(dirty_bits_size \div SIZEOF_UINT32)],
               dirty_bits |-> 0]

\* The pages whose bit is set in a bitmap
PagesOf(bitmap) ==
    UNION {{(w - 1) * UINT32_BITS + b : b \in bitmap[w]} : w \in DOMAIN bitmap}

\* The bitmap with the bit of a page set: word page >> 5, bit page & 31
with_dirty_bit(bitmap, page) ==
    [bitmap EXCEPT ![(page \div UINT32_BITS) + 1] = @ \cup {page % UINT32_BITS}]

\* The loop of lines 182-189
has_dirty_bits(pr, bitmap) ==
    \E i \in 1..(pr.dirty_bits_size \div SIZEOF_UINT32) : bitmap[i] # {}

\* flush_tlb_write_range(opaque, pr->phys_mem, pr->org_size): no write TLB
\* entry points into range i any more
flush_tlb_write_range(tlb, i) == {e \in tlb : e[1] # i}

\* The call's effect on the record of calls: the pages stored to since the
\* last get_dirty_bits are kept in it
Called(op, i, ret, flushed, since) ==
    [op |-> op, range |-> i, ret |-> ret, flushed |-> flushed, since |-> since]

\* default_get_dirty_bits that leaves the bitmap it makes current as it is
default_get_dirty_bits_no_memset(i) ==
    /\ mem_map.status = "running"
    /\ i \in DOMAIN mem_map.ranges
    /\ LET pr == mem_map.ranges[i]
           dirty_bits == pr.dirty_bits_tab[pr.dirty_bits]
           flush == has_dirty_bits(pr, dirty_bits) /\ pr.size # 0
           index == 1 - pr.dirty_bits_index
       IN  /\ mem_map' = [mem_map EXCEPT
                            !.write_tlb = IF flush THEN flush_tlb_write_range(@, i) ELSE @,
                            !.ranges[i] = [pr EXCEPT !.dirty_bits_index = index,
                                                     !.dirty_bits = index]]
           /\ host_req' = Called("get_dirty_bits", i, dirty_bits, flush, {})
    /\ UNCHANGED boot

\* default_get_dirty_bits(map, pr) for pr = &map->phys_mem_range[i - 1]
default_get_dirty_bits(i) ==
    /\ mem_map.status = "running"
    /\ i \in DOMAIN mem_map.ranges
    /\ LET pr == mem_map.ranges[i]
           dirty_bits == pr.dirty_bits_tab[pr.dirty_bits]
           flush == has_dirty_bits(pr, dirty_bits) /\ pr.size # 0
           index == 1 - pr.dirty_bits_index
       IN  /\ mem_map' = [mem_map EXCEPT
                            !.write_tlb = IF flush THEN flush_tlb_write_range(@, i) ELSE @,
                            !.ranges[i] =
                               [pr EXCEPT !.dirty_bits_index = index,
                                          !.dirty_bits = index,
                                          !.dirty_bits_tab[index] =
                                             ZeroBitmap(pr.dirty_bits_size \div SIZEOF_UINT32)]]
           /\ host_req' = Called("get_dirty_bits", i, dirty_bits, flush, {})
    /\ UNCHANGED boot

\* phys_mem_set_addr(pr, addr, enabled)
phys_mem_set_addr(i, addr, enabled) ==
    /\ mem_map.status = "running"
    /\ i \in DOMAIN mem_map.ranges
    /\ LET pr == mem_map.ranges[i]
           changes == IF enabled THEN pr.size = 0 \/ pr.addr # addr ELSE pr.size # 0
       IN  /\ mem_map' =
                 IF changes
                 THEN [mem_map EXCEPT
                         !.write_tlb = IF pr.is_ram THEN flush_tlb_write_range(@, i) ELSE @,
                         !.ranges[i] = [pr EXCEPT
                                          !.addr = IF enabled THEN addr ELSE 0,
                                          !.size = IF enabled THEN pr.org_size ELSE 0]]
                 ELSE mem_map
           /\ host_req' = Called("set_addr", i, <<>>, changes /\ pr.is_ram, host_req.since)
    /\ UNCHANGED boot

\* A store of the guest to a page of range i: through the write TLB when it
\* holds the page; otherwise the range must be enabled, the bit of the page
\* is set in pr->dirty_bits and the page enters the write TLB
guest_store(i, page) ==
    /\ mem_map.status = "running"
    /\ i \in DOMAIN mem_map.ranges
    /\ LET pr == mem_map.ranges[i]
       IN  /\ page < pr.org_size \div DEVRAM_PAGE_SIZE
           /\ IF <<i, page>> \in mem_map.write_tlb
              THEN mem_map' = mem_map
              ELSE /\ pr.size # 0
                   /\ mem_map' = [mem_map EXCEPT
                                    !.write_tlb = @ \cup {<<i, page>>},
                                    !.ranges[i].dirty_bits_tab[pr.dirty_bits] =
                                        with_dirty_bit(@, page)]
           /\ host_req' = Called("store", i, <<>>, FALSE, host_req.since \cup {page})
    /\ UNCHANGED boot

\* ---- One RAM range registered with DEVRAM_FLAG_DIRTY_BITS

\* Sizes of the range: one page, and one page more than a word of bits
DirtySizes == {DEVRAM_PAGE_SIZE, (UINT32_BITS + 1) * DEVRAM_PAGE_SIZE}
\* The pages stored to: the first and the last of the range
DirtyPages == {0, UINT32_BITS}

InitDirty ==
    /\ phase = "machine"
    /\ mem = InitMem
    /\ log_proofs = FALSE
    /\ log = <<>>
    /\ InitReplayObject
    /\ proof_out = NoProof
    /\ roll = NoRoll
    /\ interp = NoInterp
    /\ InitState
    /\ InitShadowState(NoBuffer)
    /\ InitVirt
    /\ \E size \in DirtySizes, disabled \in BOOLEAN :
          mem_map = [ranges |-> <<init_dirty_bits(
                                     [ram_entry(0, size, disabled)
                                        EXCEPT !.phys_mem = "allocated"], size)>>,
                     status |-> "running", write_tlb |-> {}]
    /\ host_req = Called("none", 0, <<>>, FALSE, {})
    /\ boot = NoBoot

DirtyGet(i) == default_get_dirty_bits(i) /\ UNCHANGED non_host_vars
DirtySetAddr(i, addr, enabled) == phys_mem_set_addr(i, addr, enabled) /\ UNCHANGED non_host_vars
DirtyStore(i, page) == guest_store(i, page) /\ UNCHANGED non_host_vars

NextDirty ==
    \/ DirtyGet(1)
    \/ \E addr \in {0, DEVRAM_PAGE_SIZE}, enabled \in BOOLEAN : DirtySetAddr(1, addr, enabled)
    \/ \E page \in DirtyPages : DirtyStore(1, page)

SpecDirty == InitDirty /\ [][NextDirty]_vars

---------------------------------------------------------------------------
(* Loading a configuration, constructing the machine and booting it *)

MemorySizes == {1, 2 ^ (INT_BITS - MB_SHIFT - 1) - 1, 2 ^ (INT_BITS - MB_SHIFT - 1),
                2 ^ (INT_BITS - MB_SHIFT)}
FileLens == {0 - 1, 0, 1, 2 ^ MB_SHIFT, 2 ^ MB_SHIFT + 1}
DeclaredFlash == 0..(VM_MAX_FLASH_DEVICE + ExtraFlash)

InitBoot ==
    /\ phase = "machine"
    /\ mem = InitMem
    /\ log_proofs = FALSE
    /\ log = <<>>
    /\ InitReplayObject
    /\ proof_out = NoProof
    /\ roll = NoRoll
    /\ interp = NoInterp
    /\ InitState
    /\ InitShadowState(NoBuffer)
    /\ InitVirt
    /\ mem_map = NoMap
    /\ host_req = NoHostReq
    /\ \E ms \in MemorySizes, fl \in FileLens, d \in DeclaredFlash :
         boot = [NoBoot EXCEPT !.pc = "config",
                               !.cfg = [memory_size |-> ms, file_len |-> fl, declared |-> d]]

BootLoadConfig == virt_lua_load_config /\ UNCHANGED non_host_vars
BootMachineInit == virt_machine_init /\ UNCHANGED non_host_vars
BootStep == trampoline_step /\ UNCHANGED non_host_vars

NextBoot == BootLoadConfig \/ BootMachineInit \/ BootStep

SpecBoot == InitBoot /\ [][NextBoot]_vars

---------------------------------------------------------------------------
(* Properties of the replay *)

\* The entry under the cursor
NextEntry == m_accesses[m_next_access + 1]

\* A step in which check_read or check_write accepts the request
AcceptedAccess ==
    /\ phase = "replay"
    /\ req'.op \in {"read", "write"}
    /\ err' = NoError

\* A step in which do_find_pma_entry returns without throwing
AcceptedFindPma ==
    /\ phase = "replay"
    /\ req'.op = "find_pma"
    /\ err' = NoError

\* C1: the n-th access requested is accepted only if the n-th entry of the
\* log has the same type and the same address; an accepted access consumes
\* exactly that entry (the cursor advances by one, the log is left alone) and
\* an accepted read returns the entry's read word. The descriptor reads of
\* do_find_pma_entry obey the same rule, entry by entry.
C1_AcceptedAccessMatchesEntry ==
    [][/\ AcceptedAccess =>
            /\ m_next_access < Len(m_accesses)
            /\ NextEntry.type = req'.op
            /\ NextEntry.address = req'.paligned
            /\ m_next_access' = m_next_access + 1
            /\ m_accesses' = m_accesses
            /\ (req'.op = "read" => req'.ret = NextEntry.read)
       /\ AcceptedFindPma =>
            /\ m_next_access' > m_next_access
            /\ m_next_access' <= Len(m_accesses)
            /\ (m_next_access' - m_next_access) % 2 = 0
            /\ m_accesses' = m_accesses
            /\ \A k \in (m_next_access + 1)..m_next_access' :
                  /\ m_accesses[k].type = "read"
                  /\ m_accesses[k].address =
                        IF (k - m_next_access) % 2 = 1
                        THEN PmaIstartAddr((k - m_next_access - 1) \div 2)
                        ELSE PmaIlengthAddr((k - m_next_access - 1) \div 2)
      ]_vars

\* The second access of a replay is an accepted read returning 1
C1_Witness ==
    /\ phase = "replay"
    /\ req.op = "read"
    /\ err = NoError
    /\ m_next_access = 2
    /\ req.ret = 1
    /\ m_accesses[2].read = 1

\* C2: with proof verification, an access is accepted only if the proof's
\* address is the access address, the proof's root_hash is the current root
\* (the root before the step), the hash of the entry's read word is the
\* proof's target_hash, and that hash rolled up the siblings is the proof's
\* root_hash; a rejected write leaves the current root alone.
C2_AcceptedAccessHasValidProof ==
    [][/\ (AcceptedAccess /\ m_verify_proofs) =>
            /\ NextEntry.proof.address = NextEntry.address
            /\ NextEntry.proof.address = req'.paligned
            /\ NextEntry.proof.root_hash = m_root_hash
            /\ get_word_hash(NextEntry.read) = NextEntry.proof.target_hash
            /\ roll_hash_up_tree(NextEntry.proof, get_word_hash(NextEntry.read))
                  = NextEntry.proof.root_hash
       /\ (phase = "replay" /\ req'.op = "write" /\ err' # NoError) =>
            m_root_hash' = m_root_hash
      ]_vars

\* A verified write accepted as the second access
C2_Witness ==
    /\ phase = "replay"
    /\ m_verify_proofs
    /\ req.op = "write"
    /\ err = NoError
    /\ m_next_access = 2

\* The starting root transformed by the first k entries of the log: a write
\* replaces it by the hash of its written word rolled up its proof.
RECURSIVE ExpectedRoot(_)
ExpectedRoot(k) ==
    IF k = 0 THEN root0
    ELSE IF m_accesses[k].type = "write"
    THEN roll_hash_up_tree(m_accesses[k].proof, get_word_hash(m_accesses[k].written))
    ELSE ExpectedRoot(k - 1)

\* C3: with proof verification, after any sequence of accepted accesses the
\* current root is the starting root transformed by the accepted writes in
\* log order; accepted reads leave it alone.
C3_RootFollowsAcceptedWrites ==
    (phase \in {"replay", "failed", "finished"} /\ m_verify_proofs)
        => get_root_hash = ExpectedRoot(m_next_access)

\* A verified replay of a write followed by a read ends at a new root
C3_Witness ==
    /\ phase = "finished"
    /\ m_verify_proofs
    /\ m_next_access = 2
    /\ m_accesses[1].type = "write"
    /\ m_accesses[2].type = "read"
    /\ get_root_hash # root0

\* C5: a request made when the log is exhausted fails with too few accesses;
\* finish fails with too many accesses exactly when entries remain, so that
\* a replay finishes only with every entry consumed.
C5_ExactlyAsManyAccesses ==
    [][/\ (phase = "replay" /\ req'.op \in {"read", "write", "find_pma"}
              /\ m_next_access >= Len(m_accesses)) => err'.kind = "too_few"
       /\ (phase = "replay" /\ req'.op = "finish") =>
            /\ err'.kind = "too_many" <=> m_next_access < Len(m_accesses)
            /\ err' = NoError <=> m_next_access = Len(m_accesses)
            /\ phase' = "finished" <=> m_next_access = Len(m_accesses)
      ]_vars

\* finish rejects a log of two entries of which one was consumed
C5_Witness ==
    /\ phase = "failed"
    /\ req.op = "finish"
    /\ err.kind = "too_many"
    /\ m_next_access = 1
    /\ Len(m_accesses) = 2

\* C6: a write whose entry matches the request in type and address (and
\* passes the proof checks when they are on) but whose logged written word
\* differs from the word the interpreter writes is rejected with a
\* written-value mismatch.
C6_WrittenMismatchRejected ==
    [][(/\ phase = "replay"
        /\ req'.op = "write"
        /\ m_next_access < Len(m_accesses)
        /\ NextEntry.type = "write"
        /\ NextEntry.address = req'.paligned
        /\ NextEntry.written # req'.val
        /\ (m_verify_proofs => check_proof(NextEntry, m_next_access) = NoError))
            => err'.kind = "written_mismatch"
      ]_vars

LogVerificationKinds ==
    {"too_few", "too_many", "type_mismatch", "address_mismatch",
     "root_hash_mismatch", "target_hash_mismatch", "written_mismatch",
     "invalid_flags"}

UnindexedKinds == {"too_few", "too_many", "log_has_no_proofs", "too_many_pma"}

\* C7 as stated: every log-verification failure carries the 1-based index of
\* the failing access (for invalid PMA flags, of one of the two descriptor
\* reads).
C7_FailureCarriesOneBasedIndex ==
    (phase = "failed" /\ err.kind \in LogVerificationKinds) =>
        IF err.kind = "invalid_flags"
        THEN err.index \in {m_next_access - 1, m_next_access}
        ELSE err.index = m_next_access + 1

\* C7: a failure of a type, address or proof check or a written-value
\* mismatch reports the position of the failing entry, 1-based when the
\* replay was built with one_based and 0-based otherwise; invalid PMA flags
\* report, in the same base, the position after the ilength entry of the
\* descriptor; too few and too many accesses carry no index.
C7_FailureIndexFollowsOneBased ==
    phase = "failed" =>
        IF err.kind \in UnindexedKinds THEN err.index = NoIndex
        ELSE /\ err.index = m_next_access + (IF m_one_based THEN 1 ELSE 0)
             /\ IF err.kind = "invalid_flags"
                THEN /\ m_next_access >= 2
                     /\ m_accesses[m_next_access].address \in
                            {PmaIlengthAddr(i) : i \in PmaSlots}
                ELSE m_next_access < Len(m_accesses)

\* The second entry fails an address check in a replay counting from zero
C7_Witness ==
    /\ phase = "failed"
    /\ err.kind = "address_mismatch"
    /\ ~m_one_based
    /\ m_next_access = 1
    /\ err.index = 1

---------------------------------------------------------------------------
(* Properties of the rebuilt PMA entries *)

\* The flag combinations a mock PMA entry may be built from
ValidFlags(istart) ==
    LET M == istart % 2
        IO == (istart \div 2) % 2
        E == (istart \div 4) % 2
        DID == (istart \div 256) % 16
    IN /\ M + IO + E = 1
       /\ M = 1 => DID \in {DID_memory, DID_drive}
       /\ IO = 1 => DID \in {DID_shadow, DID_CLINT, DID_HTIF}

\* A step in which do_find_pma_entry read a whole descriptor and went on to
\* build the mock entry from it
BuiltFromDescriptor ==
    /\ phase = "replay"
    /\ req'.op = "find_pma"
    /\ err'.kind \in {"none", "invalid_flags"}

\* C8: a mock PMA entry is built from logged istart/ilength words only if
\* exactly one of M, IO, E is set, with DID memory or drive under M and
\* shadow, CLINT or HTIF under IO; any other combination fails with invalid
\* PMA flags and leaves m_mock_pmas as it was.
C8_MockPmaFlags ==
    [][BuiltFromDescriptor =>
        LET istart == m_accesses[m_next_access' - 1].read
            ilength == m_accesses[m_next_access'].read
        IN IF ValidFlags(istart)
           THEN /\ err' = NoError
                /\ Len(m_mock_pmas') = Len(m_mock_pmas) + 1
                /\ m_mock_pmas'[Len(m_mock_pmas')].start = (istart \div 4096) * 4096
                /\ m_mock_pmas'[Len(m_mock_pmas')].length = ilength
                /\ SubSeq(m_mock_pmas', 1, Len(m_mock_pmas)) = m_mock_pmas
           ELSE /\ err'.kind = "invalid_flags"
                /\ m_mock_pmas' = m_mock_pmas
      ]_vars

\* The descriptor of slot 1, IO with the DID of memory, is turned down
C8_Witness ==
    /\ phase = "failed"
    /\ err.kind = "invalid_flags"
    /\ m_next_access = 4
    /\ m_accesses[3].read = make_istart(0, 0, 1, 0, DID_memory)
    /\ m_mock_pmas = <<>>

---------------------------------------------------------------------------
(* Properties of proofs *)

C10_SiblingsLeafSideFirst ==
    phase \in {"rolling", "rolled"} =>
        \A j \in 1..Len(roll.consumed) :
            /\ roll.consumed[j] = j - 1
            /\ proof_out.sibling_hashes[j - 1] =
                  SiblingHash(mem, proof_out.address, proof_out.log2_size + j - 1)

\* C10: sibling_hashes holds the sibling below the root first (index 0) and
\* the sibling of the target's own level at index 63 - log2_size; the verifier
\* goes from the target's level to the root, so from that index down to 0.
C10_SiblingsRootSideFirst ==
    phase \in {"rolling", "rolled"} =>
        /\ \A j \in 1..Len(roll.consumed) :
            /\ roll.consumed[j] = 63 - (proof_out.log2_size + j - 1)
            /\ proof_out.sibling_hashes[roll.consumed[j]] =
                  SiblingHash(mem, proof_out.address, proof_out.log2_size + j - 1)
        /\ (phase = "rolled" /\ proof_out.log2_size < LOG2_ROOT_SIZE) =>
            /\ roll.consumed[1] = 63 - proof_out.log2_size
            /\ roll.consumed[Len(roll.consumed)] = 0
            /\ proof_out.sibling_hashes[0] = SiblingHash(mem, proof_out.address, 63)

\* The proof of the page at address 0 rolled up: 52 siblings, index 51 first
C10_Witness ==
    /\ phase = "rolled"
    /\ proof_out.log2_size = LOG2_PAGE_SIZE
    /\ proof_out.address = 0
    /\ Len(roll.consumed) = 52
    /\ roll.consumed[1] = 51
    /\ roll.consumed[52] = 0

---------------------------------------------------------------------------
(* Properties of a step *)

\* C4: for any machine state, once machine_step has returned the state is
\* the one machine_run(s, mcycle + 1) leaves, the tree's root is the root of
\* that state, and the replay of the log the step produced goes through and
\* ends at that root.
C4_StepRunReplayAgree ==
    phase \in {"stepped", "replay", "failed", "finished"} =>
        /\ mem = machine_run(interp.s0, next_mcycle(interp.s0[McycleAddr]))
        /\ interp.tree_root = get_root_hash_of(mem)
        /\ (phase = "failed" => err.kind = "log_has_no_proofs")
        /\ ((phase = "finished" /\ m_verify_proofs)
                => get_root_hash = interp.tree_root)

\* C11: once the brk update that follows a change of mip or mie has run
\* (or_brk_with_mip_mie or set_brk_from_all), a pending enabled interrupt
\* never coexists with brk = false: (mie & mip) = 0 or brk.
C11_PendingInterruptBreaks ==
    caller = "idle" => (BitAnd(mie, mip) = 0 \/ brk)

\* An interrupt other than the lowest one is pending and enabled, and the
\* update has set brk.
C11_Witness ==
    /\ caller = "idle"
    /\ BitAnd(mie, mip) = 2
    /\ brk

\* The word the shadow page holds at a byte offset, by the layout: x[i] at
\* 8*i, the named CSRs from 0x100 in their order, PMA k at 0x800 + 16*k
\* (istart) and 0x808 + 16*k (ilength), zero everywhere else.
LiveCsr(name) ==
    IF name = "mie" THEN mie
    ELSE IF name = "mip" THEN mip
    ELSE IF name = "iflags"
         THEN 8 * iflags.PRV + 4 * ToInt(iflags.I) + 2 * ToInt(iflags.Y) + ToInt(iflags.H)
    ELSE csr[name]

LayoutWord(o) ==
    IF o < 256 THEN x[o \div 8]
    ELSE IF o < 256 + 8 * Len(ShadowCsrs) THEN LiveCsr(ShadowCsrs[((o - 256) \div 8) + 1])
    ELSE IF o >= 2048 /\ (o - 2048) \div 16 < Len(s_pmas)
         THEN IF (o - 2048) % 16 = 0 THEN s_pmas[((o - 2048) \div 16) + 1].istart
              ELSE s_pmas[((o - 2048) \div 16) + 1].ilength
    ELSE 0

C12_WitnessFailed ==
    /\ phase = "peeked"
    /\ peek.page_offset # 0
    /\ ~peek.ret

\* What a command in tohost does to tohost, fromhost and the halt flag:
\* halt sets the flag; putchar clears tohost and acknowledges in fromhost;
\* a console read clears tohost; nothing else has an effect.
CommandEffect(tohost, fromhost, halt) ==
    LET device == tohost[8]
        cmd == tohost[7]
    IN  IF device = 0 /\ cmd = 0 /\ tohost[1] % 2 = 1
        THEN [tohost |-> tohost, fromhost |-> fromhost, halt |-> TRUE]
        ELSE IF device = 1 /\ cmd = 1
        THEN [tohost |-> ZeroWord, fromhost |-> <<0, 0, 0, 0, 0, 0, 1, 1>>, halt |-> halt]
        ELSE IF device = 1 /\ cmd = 0
        THEN [tohost |-> ZeroWord, fromhost |-> fromhost, halt |-> halt]
        ELSE [tohost |-> tohost, fromhost |-> fromhost, halt |-> halt]

HtifNow == [tohost |-> htif.tohost, fromhost |-> htif.fromhost, halt |-> shuthost]

\* tohost once val is stored in its high word
WithHighWord(tohost, val) ==
    [i \in ByteIndices |-> IF i > 4 THEN val[i - 4] ELSE tohost[i]]

\* C17: a write to the high word of tohost (offset 4) has the effect of the
\* command that tohost holds once the word is stored; a write to the low
\* word of tohost or to fromhost has no effect of a command: the halt flag
\* and the register not written stay as they were, and tohost keeps the
\* low word just stored.
C17_OnlyHighTohostWriteHandles ==
    dev_req.op = "htif_write" =>
        IF dev_req.offset = 4
        THEN HtifNow = CommandEffect(WithHighWord(dev_req.htif.tohost, dev_req.val),
                                     dev_req.htif.fromhost, dev_req.shuthost)
        ELSE /\ shuthost = dev_req.shuthost
             /\ dev_req.offset = 0 =>
                    /\ \A i \in HalfIndices : htif.tohost[i] = dev_req.val[i]
                    /\ htif.fromhost = dev_req.htif.fromhost
             /\ dev_req.offset # 0 => htif.tohost = dev_req.htif.tohost

\* The high-word write of a halt request halts the machine
C17_Witness ==
    /\ dev_req.op = "htif_write"
    /\ dev_req.offset = 4
    /\ ~dev_req.shuthost
    /\ shuthost

\* The low-word write that completes a halt request in tohost does not halt
C17_WitnessLowWord ==
    /\ dev_req.op = "htif_write"
    /\ dev_req.offset = 0
    /\ htif.tohost = HtifWord(0, 0, 1)
    /\ ~shuthost

\* C18: command handling on any tohost value has exactly these effects:
\* (device 0, cmd 0, payload bit 0) sets the halt flag and leaves tohost and
\* fromhost; (device 1, cmd 1) clears tohost and sets fromhost to
\* (1 << 56) | (1 << 48); (device 1, cmd 0) clears tohost and leaves fromhost;
\* a command that is none of halt, putchar, console read and yield leaves
\* tohost, fromhost and the halt flag.
C18_CommandEffects ==
    (dev_req.op = "htif_write" /\ dev_req.handled /\ dev_req.decoded[8] # 2) =>
        HtifNow = CommandEffect(dev_req.decoded, dev_req.htif.fromhost, dev_req.shuthost)

\* A putchar has been acknowledged
C18_Witness ==
    /\ dev_req.op = "htif_write"
    /\ dev_req.handled
    /\ dev_req.decoded[8] = 1
    /\ dev_req.decoded[7] = 1
    /\ htif.tohost = ZeroWord
    /\ htif.fromhost = HtifWord(1, 1, 0)

\* C20: a write to either half of mtimecmp (offsets 0x4000 and 0x4004)
\* clears mip.MTIP and no other bit of mip; a write to any other offset of
\* the CLINT changes neither mtimecmp nor mip.
C20_MtimecmpWriteClearsMtip ==
    dev_req.op = "clint_write" =>
        IF dev_req.offset \in {16384, 16388}
        THEN \A b \in 0..11 : Bit(mip, b) = IF b = 7 THEN 0 ELSE Bit(dev_req.mip, b)
        ELSE /\ timecmp = dev_req.timecmp
             /\ mip = dev_req.mip

\* The high half of mtimecmp is written while MTIP and MSIP are pending
C20_Witness ==
    /\ dev_req.op = "clint_write"
    /\ dev_req.offset = 16388
    /\ dev_req.mip = 136
    /\ mip = 8

\* C13: virt_machine_run returns 0 exactly when mcycle has reached cycles_end
\* at the return, and 1 exactly when the halt flag is set and mcycle has not
\* reached cycles_end; it returns nothing else.
C13_RunReturnValue ==
    run.pc = "returned" =>
        /\ run.ret \in {0, 1}
        /\ run.ret = 0 <=> cpu_mcycle >= run.cycles_end
        /\ run.ret = 1 <=> (shuthost /\ cpu_mcycle < run.cycles_end)

C13_Witness ==
    /\ run.pc = "returned"
    /\ run.ret = 1
    /\ shuthost
    /\ cpu_mcycle > run.entry
    /\ cpu_mcycle < run.cycles_end

C13_WitnessReached ==
    /\ run.pc = "returned"
    /\ run.ret = 0
    /\ run.entry < run.cycles_end
    /\ cpu_mcycle = run.cycles_end

\* C14: every call of virt_machine_run eventually returns, also for an idle
\* CPU with the timer interrupt pending but not enabled and no console.
C14_EveryRunReturns == (run.pc = "cpu") ~> (run.pc = "returned")

\* C15: a call that starts with mcycle <= mcycle_end returns with
\* mcycle <= mcycle_end, and mcycle never passes mcycle_end on the way.
C15_RunStaysBelowEnd ==
    (run.pc # "none" /\ run.entry <= run.cycles_end) =>
        cpu_mcycle <= run.cycles_end

C15_Witness ==
    /\ run.pc = "returned"
    /\ run.entry < run.cycles_end
    /\ cpu_mcycle = run.cycles_end
    /\ power_down

\* C16: the run loop raises MTIP only in a state where
\* mcycle / RTC_FREQ_DIV >= mtimecmp, for every value of mtimecmp.
C16_MtipOnlyWhenExpired ==
    run.raised.at = "loop" =>
        rtc_cycles_to_time(run.raised.mcycle) >= run.raised.timecmp

\* C19: a yield command (device 2, with the bit of the command set in
\* iyield) written to tohost sets iflags.Y and brk.
C19_YieldCommandSetsYAndBrk ==
    (/\ dev_req.op = "htif_write"
     /\ dev_req.handled
     /\ dev_req.decoded[8] = HTIF_DEVICE_YIELD
     /\ dev_req.decoded[7] < 8 * BYTES_PER_WORD
     /\ shifted_bit(dev_req.htif.iyield, dev_req.decoded[7]) = {TRUE})
        => (iflags.Y /\ brk)

\* C21: any two registered ranges [start, start+len) are disjoint: a
\* registration that overlaps an existing entry fails and adds no entry.
C21_RangesDisjoint ==
    \A i, j \in DOMAIN mem_map.ranges :
        i # j =>
            \/ mem_map.ranges[i].addr + mem_map.ranges[i].org_size
                  <= mem_map.ranges[j].addr
            \/ mem_map.ranges[j].addr + mem_map.ranges[j].org_size
                  <= mem_map.ranges[i].addr

\* C22: every registered range starts at a multiple of 4 KiB and has a
\* length that is a non-zero multiple of 4 KiB; a registration that violates
\* this fails.
C22_RangesAligned ==
    \A i \in DOMAIN mem_map.ranges :
        /\ mem_map.ranges[i].addr % DEVRAM_PAGE_SIZE = 0
        /\ mem_map.ranges[i].org_size % DEVRAM_PAGE_SIZE = 0
        /\ mem_map.ranges[i].org_size # 0

\* The ranges whose enabled interval [addr, addr+size) contains paddr
Containing(paddr) ==
    {i \in DOMAIN mem_map.ranges :
        /\ mem_map.ranges[i].addr <= paddr
        /\ paddr - mem_map.ranges[i].addr < mem_map.ranges[i].size}

\* C23: get_phys_mem_range(paddr) returns the first range in registration
\* order whose enabled interval [addr, addr+size) contains paddr, and the
\* not-found result when there is none, also for ranges that end at the top
\* of the address space.
C23_LookupFindsFirstContaining ==
    host_req.op = "get_phys_mem_range" =>
        IF Containing(host_req.paddr) = {} THEN host_req.ret = 0
        ELSE /\ host_req.ret \in Containing(host_req.paddr)
             /\ \A i \in Containing(host_req.paddr) : host_req.ret <= i

\* C27: if opening or mapping the backing file fails, the registration
\* fails and leaves no registered range whose host pointer is the value of
\* the failed mapping.
C27_FailedMappingFailsRegistration ==
    /\ (host_req.op = "register_backed_ram" /\ host_req.host # "ok")
          => mem_map.status \in {"exited", "aborted"}
    /\ mem_map.status = "running" =>
          \A i \in DOMAIN mem_map.ranges : mem_map.ranges[i].phys_mem # "MAP_FAILED"

\* The replay stopped its lookup at a slot
LookupStopped ==
    /\ phase = "replay"
    /\ req'.op = "find_pma"
    /\ err'.kind \in {"none", "invalid_flags"}

\* Slot j of the lookup that started at m_next_access, as logged
SlotIstart(j) == m_accesses[m_next_access + 2 * j + 1]
SlotIlength(j) == m_accesses[m_next_access + 2 * j + 2]

\* The slot ends the lookup for paddr: its range contains paddr, or it is
\* the terminating slot
SlotStops(j, paddr) ==
    \/ SlotIlength(j).read = 0
    \/ /\ istart_start(SlotIstart(j).read) <= paddr
       /\ paddr < istart_start(SlotIstart(j).read) + SlotIlength(j).read

\* C24: during replay do_find_pma_entry examines slots 0, 1, 2, ... in
\* order, consumes two logged reads per slot (istart, then ilength, at the
\* slot's shadow offsets), stops at the first slot that contains the address
\* or has ilength 0, and the result of a stop on ilength 0 is the empty PMA.
C24_FindPmaScansSlotsInOrder ==
    [][LookupStopped =>
        LET consumed == m_next_access' - m_next_access
            k == (consumed \div 2) - 1
        IN  /\ consumed % 2 = 0
            /\ k >= 0
            /\ \A j \in 0..k :
                  /\ SlotIstart(j).type = "read"
                  /\ SlotIstart(j).address = PmaIstartAddr(j)
                  /\ SlotIlength(j).type = "read"
                  /\ SlotIlength(j).address = PmaIlengthAddr(j)
            /\ \A j \in 0..(k - 1) : ~SlotStops(j, req'.paligned)
            /\ SlotStops(k, req'.paligned)
            /\ SlotIlength(k).read = 0 =>
                  /\ err' = NoError
                  /\ m_mock_pmas'[Len(m_mock_pmas')].kind = "empty"
      ]_vars

\* The image of len bytes does not fit a RAM of memory_size MiB
exceeds_ram_size(len, memory_size) ==
    /\ memory_size < 2 ^ (INT_BITS - MB_SHIFT - 1)
    /\ len > memory_size * (2 ^ MB_SHIFT)

\* C25: virt_machine_init returns no machine, with nothing registered, when
\* the boot image is missing or longer than the RAM, and constructs a machine
\* whenever the image is present and at most as long as the RAM, for every
\* RAM size (2 GiB and more included).
C25_InitRefusesOnlyBadImages ==
    boot.pc \in {"null", "machine"} =>
        /\ (boot.pc = "null") <=>
              \/ boot.p.boot_image.buf = "NULL"
              \/ exceeds_ram_size(boot.p.boot_image.len, boot.p.ram_size)
        /\ (boot.pc = "null") => mem_map = NoMap

\* C26: a configuration that declares n consecutive flash drives is accepted
\* with flash_count = n for every n from 0 up to and including the maximum,
\* and refused for too many flash drives only when n is above the maximum.
C26_FlashCountUpToMaximum ==
    (boot.pc \in {"params", "lua_error"} /\ boot.error # "Unable to load") =>
        /\ boot.cfg.declared <= VM_MAX_FLASH_DEVICE =>
              (boot.pc = "params" /\ boot.p.flash_count = boot.cfg.declared)
        /\ boot.pc = "lua_error" => boot.cfg.declared > VM_MAX_FLASH_DEVICE

\* The word of the trampoline at index i (from 0)
TrampolineWord(i) ==
    SubSeq(boot.low_ram, SIZEOF_UINT32 * i + 1, SIZEOF_UINT32 * (i + 1))

\* 0x80000000 and 0x1040 as 64-bit values
Addr80000000 == <<0, 0, 0, 128, 0, 0, 0, 0>>
Addr1040 == <<64, 16, 0, 0, 0, 0, 0, 0>>

\* C28: the five words copy_boot_image writes at the low-RAM base are auipc
\* t0; auipc a1, 0; addi a1, a1, 60; csrr a0, mhartid; jr t0, every immediate
\* in its own field, and a CPU started at pc = 0x1000 leaves them only by the
\* jump, with pc = 0x80000000, t0 = 0x80000000 and a1 = 0x1040.
C28_TrampolineBoots ==
    boot.pc = "machine" =>
        /\ Len(boot.low_ram) = 5 * SIZEOF_UINT32
        /\ decode(TrampolineWord(0)).opcode = OPCODE_AUIPC
        /\ decode(TrampolineWord(0)).rd = REG_T0
        /\ decode(TrampolineWord(0)).imm20 = 2 ^ 19 - 1
        /\ decode(TrampolineWord(1)).opcode = OPCODE_AUIPC
        /\ decode(TrampolineWord(1)).rd = REG_A1
        /\ decode(TrampolineWord(1)).imm20 = 0
        /\ decode(TrampolineWord(2)) =
              [opcode |-> OPCODE_OP_IMM, rd |-> REG_A1, funct3 |-> 0, rs1 |-> REG_A1,
               imm12 |-> 60, imm20 |-> 60 * 256 + REG_A1 * 8]
        /\ decode(TrampolineWord(3)).opcode = OPCODE_SYSTEM
        /\ decode(TrampolineWord(3)).funct3 = FUNCT3_CSRRS
        /\ decode(TrampolineWord(3)).rd = REG_A0
        /\ decode(TrampolineWord(3)).rs1 = 0
        /\ decode(TrampolineWord(3)).imm12 = CSR_MHARTID
        /\ decode(TrampolineWord(4)).opcode = OPCODE_JALR
        /\ decode(TrampolineWord(4)).funct3 = 0
        /\ decode(TrampolineWord(4)).rd = 0
        /\ decode(TrampolineWord(4)).rs1 = REG_T0
        /\ decode(TrampolineWord(4)).imm12 = 0
        /\ boot.cpu.status = "running"
        /\ low_ram_offset(boot.cpu.pc, Len(boot.low_ram)) = Len(boot.low_ram) =>
              /\ boot.cpu.pc = Addr80000000
              /\ boot.cpu.x[REG_T0] = Addr80000000
              /\ boot.cpu.x[REG_A1] = Addr1040

\* The trampoline has been executed to its jump
C28_Witness ==
    /\ boot.pc = "machine"
    /\ host_req.op = "step"
    /\ boot.cpu.pc = Addr80000000

\* The run loop is between its call and its return
Running == run.pc \in {"cpu", "check"}

\* The timer has expired and MTIP is clear
ExpiredUnsignalled ==
    /\ BitAnd(mip, MIP_MTIP) = 0
    /\ rtc_time_to_cycles(timecmp) <= cpu_mcycle

\* The next multiple of RTC_FREQ_DIV above c
NextMultiple(c) == c + RTC_FREQ_DIV - (c % RTC_FREQ_DIV)

SmallerOf(a, b) == IF a < b THEN a ELSE b

C30_McycleNeverDecreases ==
    [][Running =>
         /\ cpu_mcycle' >= cpu_mcycle
         /\ (run.pc = "check" /\ cpu_mcycle' # cpu_mcycle) =>
               /\ power_down
               /\ BitAnd(mip, MIP_MTIP) = 0
               /\ rtc_cycles_to_time(cpu_mcycle) < timecmp
               /\ cpu_mcycle' = SmallerOf(rtc_time_to_cycles(timecmp), run.cycles_end)
               /\ cpu_mcycle' > cpu_mcycle]_vars

\* Time has been skipped to the expiry of the timer
C30_Witness ==
    /\ run.pc = "cpu"
    /\ power_down
    /\ cpu_mcycle > run.cycles
    /\ cpu_mcycle = rtc_time_to_cycles(timecmp)
    /\ cpu_mcycle < run.cycles_end

\* The offset of the other half of mtimecmp
OtherHalf(offset) ==
    IF offset = CLINT_MTIMECMP THEN CLINT_MTIMECMP + BYTES_PER_HALF ELSE CLINT_MTIMECMP

\* C31: a 32-bit write to one half of a 64-bit device register (here
\* mtimecmp of the CLINT) leaves the other half as it was, and 32-bit reads
\* at the two offsets return the halves written.
C31_HalfWriteKeepsOtherHalf ==
    (dev_req.op = "clint_write" /\ clint_write_resets(dev_req.offset)) =>
        /\ clint_read_timecmp(timecmp, dev_req.offset) = dev_req.val
        /\ clint_read_timecmp(timecmp, OtherHalf(dev_req.offset))
              = clint_read_timecmp(dev_req.timecmp, OtherHalf(dev_req.offset))

\* The entry a check has just accepted
Accepted == m_accesses[req'.n + 1]

\* A check_read or check_write has just ended
Checked == phase = "replay" /\ req'.op \in {"read", "write"} /\ req'.n = m_next_access

\* C32: with proof verification enabled, a word access is accepted only if
\* its proof is the proof of a word leaf (log2_size 3, every level up to the
\* root hashed); an entry whose proof has a larger log2_size is rejected.
C32_OnlyWordProofsAccepted ==
    [][(Checked /\ m_verify_proofs /\ err' = NoError) =>
          Accepted.proof.log2_size = LOG2_WORD_SIZE]_vars

\* C33: with proof verification enabled and a non-empty log, the replay
\* starts from the root_hash of the first logged access's proof, so the
\* root-hash test of the first access never fails, and every later access
\* is accepted only against the root chained from it.
C33_StartingRootComesFromLog ==
    /\ [][(phase = "stepped" /\ phase' = "replay" /\ m_verify_proofs' /\ log # <<>>) =>
             (m_root_hash' = log[1].proof.root_hash /\ root0' = m_root_hash')]_vars
    /\ [][(Checked /\ m_verify_proofs) =>
             /\ m_next_access = 0 => err'.kind # "root_hash_mismatch"
             /\ err'.kind = "root_hash_mismatch" =>
                    m_accesses[m_next_access + 1].proof.root_hash # m_root_hash
             /\ err' = NoError =>
                    /\ Accepted.proof.root_hash = m_root_hash
                    /\ Accepted.type = "read" => m_root_hash' = m_root_hash]_vars

\* A second access has been accepted against the root a write left
C33_Witness ==
    /\ phase = "replay"
    /\ m_verify_proofs
    /\ m_next_access = 2
    /\ m_accesses[1].type = "write"
    /\ m_accesses[2].proof.root_hash # root0

\* C34: a check_read or check_write that raises an error leaves the log
\* cursor and the current root hash as they were before the call, and
\* consumes no entry.
C34_FailedCheckChangesNothing ==
    [][(Checked /\ err' # NoError) =>
          /\ m_next_access' = m_next_access
          /\ m_root_hash' = m_root_hash
          /\ m_accesses' = m_accesses]_vars

\* The second access, a write of another word than the logged one, has been
\* refused after its proof was accepted
C34_Witness ==
    /\ phase = "failed"
    /\ m_verify_proofs
    /\ req.op = "write"
    /\ err.kind = "written_mismatch"
    /\ m_next_access = 1

\* C35: during replay do_find_pma_entry builds an entry from a slot with
\* ilength # 0 only if the whole access (here of 8 bytes) lies inside the
\* slot: start <= paddr and paddr + 8 <= start + ilength, for every logged
\* ilength, those below the width of the access included.
C35_EntryHoldsWholeAccess ==
    [][LookupStopped =>
        LET consumed == m_next_access' - m_next_access
            k == (consumed \div 2) - 1
        IN  (k >= 0 /\ SlotIlength(k).read # 0) =>
               /\ istart_start(SlotIstart(k).read) <= req'.paligned
               /\ req'.paligned + SIZEOF_WORD
                     <= istart_start(SlotIstart(k).read) + SlotIlength(k).read
      ]_vars

\* Two entries were consumed by the step: a read and then a write, both at
\* paligned, and under verification the word logged as written is the word
\* the call wrote
ReadThenWriteAt(paligned) ==
    /\ m_next_access' = m_next_access + 2
    /\ m_accesses[m_next_access + 1].type = "read"
    /\ m_accesses[m_next_access + 1].address = paligned
    /\ m_accesses[m_next_access + 2].type = "write"
    /\ m_accesses[m_next_access + 2].address = paligned
    /\ req'.ret = m_accesses[m_next_access + 1].read
    /\ m_verify_proofs => m_accesses[m_next_access + 2].written = req'.val

\* C36: the replay of a memory write narrower than 8 bytes consumes exactly
\* two entries at the aligned address that contains it, a read and then a
\* write, and the word written is the word read with only the addressed bytes
\* replaced by the new value; the replay of an 8-byte write consumes exactly
\* one write entry at the address itself.
C36_NarrowWriteReadsThenWrites ==
    [][\A off \in 0..(SIZEOF_WORD - 1), size \in AccessSizes :
         \A val \in WriteVals(size) :
            (do_write_memory(RamWordAddr + off, size, val) /\ err' = NoError) =>
               IF size < SIZEOF_WORD
               THEN /\ ReadThenWriteAt(RamWordAddr)
                    /\ \A i \in 0..(SIZEOF_WORD - 1) :
                          byte_of(req'.val, i) =
                             IF i >= off /\ i < off + size
                             THEN byte_of(val, i - off)
                             ELSE byte_of(req'.ret, i)
               ELSE /\ m_next_access' = m_next_access + 1
                    /\ m_accesses[m_next_access + 1].type = "write"
                    /\ m_accesses[m_next_access + 1].address = RamWordAddr + off
                    /\ req'.val = val
      ]_vars

\* A verified replay wrote two bytes in the middle of a word that held other
\* bytes
C36_Witness ==
    /\ phase = "replay"
    /\ m_verify_proofs
    /\ m_next_access = 2
    /\ req.op = "write"
    /\ req.paligned = RamWordAddr
    /\ req.ret = word_of_byte(2)
    /\ req.val = aliased_aligned_write(word_of_byte(2), 2, 2, 1)

\* The field of `width` bits at `shift` of a word, and the word without it
FieldOf(word, shift, width) == (word \div 2 ^ shift) % (2 ^ width)
RestOf(word, shift, width) == word - FieldOf(word, shift, width) * 2 ^ shift

\* The step took the word of iflags from the log and wrote it back with the
\* field at shift set to v and every other bit as it was
IflagsFieldSet(shift, width, v) ==
    /\ ReadThenWriteAt(IflagsAddr)
    /\ FieldOf(req'.val, shift, width) = v
    /\ RestOf(req'.val, shift, width) = RestOf(req'.ret, shift, width)

\* C37: each update of a field of iflags in replay (set H, set or reset Y,
\* set or reset I, write PRV) consumes exactly one read followed by one write
\* at the shadow address of iflags, and the value written is the value read
\* with only that field changed.
C37_IflagsUpdateKeepsOtherFields ==
    [][/\ (do_set_iflags_H /\ err' = NoError) => IflagsFieldSet(IFLAGS_H_SHIFT, 1, 1)
       /\ (do_set_iflags_Y /\ err' = NoError) => IflagsFieldSet(IFLAGS_Y_SHIFT, 1, 1)
       /\ (do_reset_iflags_Y /\ err' = NoError) => IflagsFieldSet(IFLAGS_Y_SHIFT, 1, 0)
       /\ (do_set_iflags_I /\ err' = NoError) => IflagsFieldSet(IFLAGS_I_SHIFT, 1, 1)
       /\ (do_reset_iflags_I /\ err' = NoError) => IflagsFieldSet(IFLAGS_I_SHIFT, 1, 0)
       /\ \A v \in PrvVals :
             (do_write_iflags_PRV(v) /\ err' = NoError)
                => IflagsFieldSet(IFLAGS_PRV_SHIFT, 2, v % 4)
      ]_vars

\* A verified replay reset Y in a word of iflags that has bits beyond the
\* fields
C37_Witness ==
    /\ phase = "replay"
    /\ m_verify_proofs
    /\ m_next_access = 2
    /\ req.op = "write"
    /\ req.paligned = IflagsAddr
    /\ req.ret = packed_iflags(1, 0, 1, 0)
    /\ req.val = packed_iflags(1, 0, 0, 0)

\* C38: set_brk_from_all sets brk to exactly ((mip & mie) != 0) or the yield
\* break condition or iflags.H, the or_brk_* updates never change brk from
\* true to false, and so a state these updates leave with brk false is
\* neither halted nor in the yield break condition (assert_no_brk holds).
C38_NoBrkMeansNoBreakCondition ==
    [][/\ set_brk_from_all =>
             /\ (BitAnd(mip, mie) # 0 \/ iflags.H) => brk'
             /\ ~brk' => /\ BitAnd(mip', mie') = 0
                         /\ brk_from_iflags_Y(iflags', htif') = {FALSE}
                         /\ ~iflags'.H
       /\ (or_brk_with_mip_mie \/ or_brk_with_iflags_H \/ or_brk_with_iflags_Y)
             => (brk => brk')
      ]_vars

\* The step is one of the run loop with the console block executed
ConsoleBlockStep == run.pc = "check" /\ run'.pc = "cpu"

\* C39: the console feeds a character of its input into fromhost, as
\* (1 << 56) | (0 << 48) | char, only when irq_pending is false; feeding sets
\* irq_pending and wakes the CPU from power-down; irq_pending is cleared only
\* by a write of the guest to the high word of fromhost; so the run loop
\* never overwrites a fed character before the guest acknowledged it, and
\* 0 <= buf_pos <= buf_len always.
C39_FedCharacterWaitsForAck ==
    /\ [](con.attached => (0 <= con.buf_pos /\ con.buf_pos <= con.buf_len))
    /\ [][/\ (ConsoleBlockStep /\ (con' # con \/ htif'.fromhost # htif.fromhost)) =>
                /\ ~con.irq_pending
                /\ con'.irq_pending
                /\ ~power_down'
                /\ htif'.fromhost = [i \in ByteIndices |->
                                        IF i = 8 THEN 1
                                        ELSE IF i = 1 THEN con'.buf[con'.buf_pos]
                                        ELSE 0]
          /\ (ConsoleBlockStep /\ con.irq_pending) =>
                (htif'.fromhost = htif.fromhost /\ con' = con)
          /\ (con.irq_pending /\ ~con'.irq_pending) =>
                (dev_req'.op = "htif_write" /\ dev_req'.offset = 12)
        ]_vars

\* The second character of the buffer was fed after the guest acknowledged
\* the first, and the CPU is awake
C39_Witness ==
    /\ con.irq_pending
    /\ con.buf_pos = 2
    /\ con.buf_len = 2
    /\ htif.fromhost = HtifWord(1, 0, 200)
    /\ dev_req.op = "htif_write"
    /\ dev_req.offset = 12
    /\ ~power_down

\* C40: each call of get_dirty_bits on a range returns the bitmap of the
\* pages dirtied since the call before and makes the other bitmap, zeroed,
\* the current one, so that no dirty page is reported twice or lost; the
\* write TLB of the range is flushed if and only if the bitmap returned has
\* a bit set and the range is enabled.
C40_DirtyPagesReportedOnce ==
    [][default_get_dirty_bits(1) =>
          LET pr == mem_map.ranges[1]
              after == mem_map'.ranges[1]
          IN  /\ PagesOf(host_req'.ret) = host_req.since
              /\ host_req'.ret = pr.dirty_bits_tab[pr.dirty_bits_index]
              /\ after.dirty_bits_index = 1 - pr.dirty_bits_index
              /\ after.dirty_bits = after.dirty_bits_index
              /\ PagesOf(after.dirty_bits_tab[after.dirty_bits]) = {}
              /\ host_req'.flushed = (PagesOf(host_req'.ret) # {} /\ pr.size # 0)
              /\ host_req'.flushed =>
                    \A page \in DirtyPages : <<1, page>> \notin mem_map'.write_tlb
      ]_vars

\* A later call returned the last page of a range of 33 pages alone, from
\* the bitmap that an earlier call had returned with the first page in it,
\* and flushed the write TLB
C40_Witness ==
    /\ host_req.op = "get_dirty_bits"
    /\ PagesOf(host_req.ret) = {UINT32_BITS}
    /\ host_req.flushed
    /\ mem_map.ranges[1].dirty_bits_index = 1
    /\ mem_map.write_tlb = {}
    /\ PagesOf(mem_map.ranges[1].dirty_bits_tab[0]) = {UINT32_BITS}

====
